---- MODULE Spec2Model ----
(***************************************************************************)
(* Model of the chat orchestration layer of Frigate:                       *)
(*   frigate/api/chat.py            chat_completion (agent loop, blocking, *)
(*                                  simulated streaming, native streaming) *)
(*                                  _execute_pending_tools, _chunk_content *)
(*   frigate/genai/utils.py         parse_tool_calls_from_message,         *)
(*                                  build_assistant_message_for_conversation*)
(*   frigate/genai/{openai,azure-openai,gemini,ollama,llama_cpp}.py        *)
(*                                  chat_with_tools, chat_with_tools_stream*)
(*                                                                         *)
(* Encoding of Python values.                                              *)
(*   text       a sequence of one-character strings, <<"h","i">>           *)
(*   None       (as a text) the one-element tuple <<"None">>, which is no  *)
(*              sequence of characters                                     *)
(*   opaque     <<s>> for a text that is never split (system prompt, tool  *)
(*              result, error message)                                     *)
(*   value      a JSON-like Python value [t |-> type, v |-> JSON source]   *)
(*   tool_calls an adapter returns None or a non-empty list, never []: the *)
(*              empty sequence stands for None                             *)
(***************************************************************************)
EXTENDS Integers, Sequences, FiniteSets, TLC

VARIABLES
    adapter,            \* request.app.genai_manager.tool_client (which provider class)
    stream,             \* body.stream
    max_iterations,     \* body.max_tool_iterations
    pc,                 \* position of chat_completion / of its response generator
    conversation,       \* conversation
    tool_iterations,    \* tool_iterations (blocking loop)
    tool_calls,         \* tool_calls (blocking loop)
    stream_iterations,  \* stream_iterations (stream_body_llm)
    stream_tool_calls,  \* stream_tool_calls (stream_body_llm)
    provider_calls,     \* history: number of chat_with_tools / chat_with_tools_stream calls
    requested,          \* history: tool calls of the provider turn being processed
    turn_start,         \* history: Len(conversation) when that provider turn started
    events,             \* events the running chat_with_tools_stream will still yield
    pending,            \* pending_tool_calls not yet executed by _execute_pending_tools
    tool_calls_out,     \* local of _execute_pending_tools
    tool_results,       \* local of _execute_pending_tools
    to_yield,           \* frames stream_body will still yield
    frames,             \* frames written to the client so far
    response,           \* what chat_completion returned (JSONResponse / StreamingResponse)
    last_finish,        \* history: finish_reason of the last NormalizedResponse received
    final_native,       \* history: native finish status of the turn that gave the final answer
    frame_turn,         \* history: for each frame, the provider call during which it was written
    raw,                \* adapter check: the provider's raw output
    result              \* adapter check: the NormalizedResponse returned for raw

\* state of the units that are checked on their own
VARIABLES
    answer,             \* _chunk_content: the content argument (a final answer)
    parts,              \* _chunk_content: fragments the generator will still yield
    delivered,          \* stream_body: concatenation of the deltas of the content frames written
    body_messages,      \* chat_completion: body.messages
    live_camera,        \* chat_completion: what body.include_live_image names ("none": not set)
    first_user_message_seen,    \* chat_completion: first_user_message_seen
    init_conversation,  \* chat_completion: conversation while it is being initialized
    frame_reads,        \* history: calls of frame_processor.get_current_frame
    genai_config,       \* GenAIClientManager: self._config.genai, the entries in order
    role_clients,       \* GenAIClientManager: _tool_client, _vision_client, _embeddings_client
    entries_done,       \* GenAIClientManager._update_config: entries the loop has passed
    init_provider,      \* what _init_provider of each entry's adapter returns ("None": null)
    glc_camera,         \* _execute_get_live_context: what the camera argument names
    glc_fault,          \* _execute_get_live_context: the call of the try body that raises, if any
    state_tracked_objects,      \* camera_state.tracked_objects: ids of the map, in dict order
    obj_frame_time,     \* obj_data["frame_time"] of every tracked object
    state_current_frame_time,   \* camera_state.current_frame_time
    current_frame_lock, \* camera_state.current_frame_lock: its holder, or "free"
    tracked_objects,    \* _execute_get_live_context: tracked_objects (the copy)
    frame_time,         \* _execute_get_live_context: frame_time
    glc_remaining,      \* _execute_get_live_context: items the for loop has not visited
    tracked_objects_dict,       \* _execute_get_live_context: tracked_objects_dict, its keys
    glc_result,         \* the dict _execute_get_live_context returned
    glc_history,        \* history: reads of camera_states, acquisitions of the lock
    search_arguments,   \* _execute_search_objects: the after and before entries of arguments
    after,              \* _execute_search_objects: after
    before,             \* _execute_search_objects: before
    query_params,       \* _execute_search_objects: after and before of query_params
    search_warnings,    \* history: the bounds logger.warning was called for
    sync_pc,            \* start_media_sync_job: position of every calling thread
    sync_seen,          \* job_is_running: the job get_current_job returned to the thread
    sync_job,           \* start_media_sync_job: job, the MediaSyncJob the thread created
    sync_returned,      \* start_media_sync_job: what the thread's last call returned
    sync_calls,         \* history: calls of start_media_sync_job made
    jobs,               \* every MediaSyncJob created, by id
    current_job,        \* _current_jobs["media_sync"], an id (0: None)
    completed_jobs,     \* _completed_jobs, the ids kept
    runner_pc,          \* MediaSyncRunner of every job: position of its thread
    broadcast_failures, \* history: ids of the jobs with a status broadcast that raised
    stream_input,       \* history: the provider stream an adapter call taken alone has read
    snapshot_frame_times, \* history: each object's frame_time when get_live_context read current_frame_time
    tracker_frames,     \* frames the tracker has processed during the call
    tool_client_reads,  \* history: the handles requests have read from tool_client during the rebuild
    consumer,           \* the consumer of the streamed response: "connected" or "disconnected"
    adapter_generator,  \* the adapter's generator left by a disconnect: "none", "suspended", "closed"
    open_connection     \* the provider connection that was open at the disconnect: "none", "open", "closed"

chatData == <<adapter, stream, max_iterations, conversation, tool_iterations,
              tool_calls, stream_iterations, stream_tool_calls, provider_calls,
              requested, turn_start, events, pending, tool_calls_out, tool_results,
              to_yield, frames, response, last_finish, final_native, frame_turn,
              raw, result>>

chunkVars == <<answer, parts, delivered>>

buildVars == <<body_messages, live_camera, first_user_message_seen, init_conversation,
               frame_reads>>

managerVars == <<genai_config, role_clients, entries_done, init_provider>>

liveVars == <<glc_camera, glc_fault, state_tracked_objects, obj_frame_time,
              state_current_frame_time, current_frame_lock, tracked_objects, frame_time,
              glc_remaining, tracked_objects_dict, glc_result, glc_history>>

searchVars == <<search_arguments, after, before, query_params, search_warnings>>

syncVars == <<sync_pc, sync_seen, sync_job, sync_returned, sync_calls, jobs, current_job,
              completed_jobs, runner_pc, broadcast_failures>>

adapterVars == <<stream_input>>

trackerVars == <<snapshot_frame_times, tracker_frames>>

readerVars == <<tool_client_reads>>

cancelVars == <<consumer, adapter_generator, open_connection>>

unitVars == <<chunkVars, buildVars, managerVars, liveVars, searchVars, syncVars, adapterVars, trackerVars, readerVars, cancelVars>>

vars == <<pc, chatData, unitVars>>

----------------------------------------------------------------------------
(* Bounds *)

MaxCap == 2          \* largest max_tool_iterations explored (the field allows 1..10)
MaxCalls == 2        \* most tool calls in one provider turn

----------------------------------------------------------------------------
(* Python values *)

None == <<"None">>
Opaque(s) == <<s>>

Truthy(text) == text # None /\ text # <<>>

RECURSIVE LStrip(_)
LStrip(s) == IF s # <<>> /\ Head(s) = " " THEN LStrip(Tail(s)) ELSE s

RECURSIVE RStrip(_)
RStrip(s) == IF s # <<>> /\ s[Len(s)] = " " THEN RStrip(SubSeq(s, 1, Len(s) - 1)) ELSE s

\* str.strip()
Strip(s) == RStrip(LStrip(s))

\* JSON sources used as tool-call argument texts
ObjText == "{\"camera\": \"front_door\"}"
EmptyObjText == "{}"
ListText == "[1]"
BadText == "{\"camera\": \"fro"
EmptyText == ""

PyDict(src) == [t |-> "dict", v |-> src]
PyList(src) == [t |-> "list", v |-> src]
PyStr(s) == [t |-> "str", v |-> s]
PyNone == [t |-> "NoneType", v |-> "None"]

\* bool(value)
ValueTruthy(val) ==
    /\ val # PyNone
    /\ val # PyDict(EmptyObjText)
    /\ val # PyStr(EmptyText)

\* json.loads(x): [ok |-> TRUE, val |-> value], or the exception raised
json_loads(x) ==
    IF x.t # "str" THEN [ok |-> FALSE, exc |-> "TypeError", val |-> PyNone]
    ELSE IF x.v = ObjText THEN [ok |-> TRUE, exc |-> "", val |-> PyDict(ObjText)]
    ELSE IF x.v = EmptyObjText THEN [ok |-> TRUE, exc |-> "", val |-> PyDict(EmptyObjText)]
    ELSE IF x.v = ListText THEN [ok |-> TRUE, exc |-> "", val |-> PyList(ListText)]
    ELSE [ok |-> FALSE, exc |-> "JSONDecodeError", val |-> PyNone]

\* json.dumps(value): the JSON source of the value
json_dumps(val) ==
    IF val.t = "str" THEN Opaque("\"...\"") ELSE Opaque(val.v)

----------------------------------------------------------------------------
(* NormalizedResponse *)

ErrorResponse == [content |-> None, tool_calls |-> <<>>, finish_reason |-> "error"]

SeqMap(F(_), s) == [i \in 1..Len(s) |-> F(s[i])]

\* content = x.strip() if x else None      (openai.py:181, llama_cpp.py:143-144, ollama.py:142)
StripOrNone(c) == IF Truthy(c) THEN Strip(c) ELSE None

\* "if hasattr(choice, 'finish_reason') and choice.finish_reason": a native status is
\* absent ("None") or empty ("") or a non-empty string
NativeTruthy(fr) == fr # "None" /\ fr # ""

\* One tool call as the OpenAI and Azure adapters rebuild it: unparsable arguments become {}
OpenAIToolCall(tc) ==
    [id |-> tc.id, name |-> tc.name,
     arguments |-> IF json_loads(tc.arguments).ok THEN json_loads(tc.arguments).val
                   ELSE PyDict(EmptyObjText)]

\* OpenAIClient.chat_with_tools (openai.py)
OpenAI_chat_with_tools(r) ==
    IF r.transport # "ok" \/ ~r.provider_ok THEN ErrorResponse
    ELSE IF ~r.has_choice THEN ErrorResponse
    ELSE IF \E i \in 1..Len(r.tool_calls) : json_loads(r.tool_calls[i].arguments).exc = "TypeError"
    THEN ErrorResponse
    ELSE LET content == StripOrNone(r.content)
             calls == SeqMap(OpenAIToolCall, r.tool_calls)
         IN  [content |-> content, tool_calls |-> calls,
              finish_reason |-> IF NativeTruthy(r.finish_reason) THEN r.finish_reason
                                ELSE IF calls # <<>> THEN "tool_calls"
                                ELSE IF Truthy(content) THEN "stop"
                                ELSE "error"]

\* OpenAIClient.chat_with_tools (azure-openai.py); a provider that failed to initialize
\* is None and the attribute access on it raises inside the try block
Azure_chat_with_tools(r) ==
    IF ~r.provider_ok \/ r.transport # "ok" THEN ErrorResponse
    ELSE IF ~r.has_choice THEN ErrorResponse
    ELSE IF \E i \in 1..Len(r.tool_calls) : json_loads(r.tool_calls[i].arguments).exc = "TypeError"
    THEN ErrorResponse
    ELSE LET content == StripOrNone(r.content)
             calls == SeqMap(OpenAIToolCall, r.tool_calls)
         IN  [content |-> content, tool_calls |-> calls,
              finish_reason |-> IF NativeTruthy(r.finish_reason) THEN r.finish_reason
                                ELSE IF calls # <<>> THEN "tool_calls"
                                ELSE IF Truthy(content) THEN "stop"
                                ELSE "error"]

\* arguments_str = function_data.get("arguments") or "{}"; json.loads; {} on any failure
ParsedToolCall(tc) ==
    LET arguments_str == IF ValueTruthy(tc.arguments) THEN tc.arguments ELSE PyStr(EmptyObjText)
    IN  [id |-> tc.id, name |-> tc.name,
         arguments |-> IF json_loads(arguments_str).ok THEN json_loads(arguments_str).val
                       ELSE PyDict(EmptyObjText)]

\* parse_tool_calls_from_message: None (here <<>>) when the message has no tool calls
parse_tool_calls_from_message(raw_calls) == SeqMap(ParsedToolCall, raw_calls)

\* LlamaCppClient._message_from_choice
LlamaCpp_message_from_choice(r) ==
    LET content == IF r.has_message THEN StripOrNone(r.content) ELSE None
        calls == IF r.has_message THEN parse_tool_calls_from_message(r.tool_calls) ELSE <<>>
    IN  [content |-> content, tool_calls |-> calls,
         finish_reason |-> IF NativeTruthy(r.finish_reason) THEN r.finish_reason
                           ELSE IF calls # <<>> THEN "tool_calls"
                           ELSE IF Truthy(content) THEN "stop"
                           ELSE "error"]

\* variant: only the timeout is caught, any other exception of the transport leaves the call
LlamaCpp_chat_with_tools_uncaught(r) ==
    IF ~r.provider_ok THEN ErrorResponse
    ELSE IF r.transport = "timeout" THEN ErrorResponse
    ELSE IF r.transport = "raise" THEN [content |-> None, tool_calls |-> <<>>,
                                        finish_reason |-> "<exception>"]
    ELSE IF ~r.has_choice THEN ErrorResponse
    ELSE LlamaCpp_message_from_choice(r)

\* LlamaCppClient.chat_with_tools
LlamaCpp_chat_with_tools(r) ==
    IF ~r.provider_ok THEN ErrorResponse
    ELSE IF r.transport # "ok" THEN ErrorResponse
    ELSE IF ~r.has_choice THEN ErrorResponse
    ELSE LlamaCpp_message_from_choice(r)

\* OllamaClient._message_from_response
Ollama_message_from_response(r) ==
    IF ~r.has_message THEN ErrorResponse
    ELSE LET content == StripOrNone(r.content)
             calls == parse_tool_calls_from_message(r.tool_calls)
         IN  [content |-> content, tool_calls |-> calls,
              finish_reason |->
                  IF r.done
                  THEN (IF calls # <<>> THEN "tool_calls"
                        ELSE IF Truthy(content) THEN "stop" ELSE "error")
                  ELSE IF calls # <<>> THEN "tool_calls"
                  ELSE IF Truthy(content) THEN "stop"
                  ELSE "error"]

\* OllamaClient.chat_with_tools
Ollama_chat_with_tools(r) ==
    IF ~r.provider_ok THEN ErrorResponse
    ELSE IF r.transport # "ok" THEN ErrorResponse
    ELSE Ollama_message_from_response(r)

\* One function_call part as the Gemini adapter rebuilds it: the name doubles as the id
GeminiToolCall(tc) ==
    [id |-> tc.name, name |-> tc.name,
     arguments |-> IF ValueTruthy(tc.arguments) /\ tc.arguments.t = "dict" THEN tc.arguments
                   ELSE PyDict(EmptyObjText)]

\* GeminiClient.chat_with_tools
Gemini_chat_with_tools(r) ==
    IF r.transport # "ok" \/ ~r.provider_ok THEN ErrorResponse
    ELSE IF ~r.has_choice THEN ErrorResponse
    ELSE LET content == StripOrNone(r.content)
             calls == SeqMap(GeminiToolCall, r.tool_calls)
         IN  [content |-> content, tool_calls |-> calls,
              finish_reason |->
                  IF NativeTruthy(r.finish_reason)
                  THEN IF r.finish_reason = "STOP" THEN "stop"
                       ELSE IF r.finish_reason = "MAX_TOKENS" THEN "length"
                       ELSE IF r.finish_reason \in {"SAFETY", "RECITATION"} THEN "error"
                       ELSE IF calls # <<>> THEN "tool_calls"
                       ELSE IF Truthy(content) THEN "stop"
                       ELSE "error"
                  ELSE IF calls # <<>> THEN "tool_calls"
                  ELSE IF Truthy(content) THEN "stop"
                  ELSE "error"]

Adapters == {"openai", "azure_openai", "gemini", "ollama", "llama_cpp"}

\* genai_client.chat_with_tools(...) of the bound adapter class
chat_with_tools(a, r) ==
    CASE a = "openai" -> OpenAI_chat_with_tools(r)
      [] a = "azure_openai" -> Azure_chat_with_tools(r)
      [] a = "gemini" -> Gemini_chat_with_tools(r)
      [] a = "ollama" -> Ollama_chat_with_tools(r)
      [] a = "llama_cpp" -> LlamaCpp_chat_with_tools(r)


----------------------------------------------------------------------------
(* chat_with_tools_stream *)

\* events yielded by an adapter's stream generator
ContentDeltaEvent(text) == [kind |-> "content_delta", value |-> text, message |-> ErrorResponse]
MessageEvent(m) == [kind |-> "message", value |-> None, message |-> m]

\* one tool-call delta of a stream chunk ("" for an absent id or name)
Delta(index, id, name, arguments) ==
    [index |-> index, id |-> id, name |-> name, arguments |-> arguments]

\* one stream chunk
Chunk(has_choice, content, deltas, finish_reason, done) ==
    [has_choice |-> has_choice, content |-> content, tool_calls |-> deltas,
     finish_reason |-> finish_reason, done |-> done]

\* the provider's stream: the chunks it would deliver and, when fail_after >= 0, the number
\* of chunks delivered before the transport raises
StreamRaw(provider_ok, fail_after, chunks) ==
    [provider_ok |-> provider_ok, fail_after |-> fail_after, chunks |-> chunks]

Delivered(sr) ==
    IF sr.fail_after < 0 \/ sr.fail_after >= Len(sr.chunks) THEN sr.chunks
    ELSE SubSeq(sr.chunks, 1, sr.fail_after)

Fails(sr) == sr.fail_after >= 0

RECURSIVE FoldLeft(_, _, _)
FoldLeft(Op(_, _), acc, seq) ==
    IF seq = <<>> THEN acc ELSE FoldLeft(Op, Op(acc, Head(seq)), Tail(seq))

\* chunks the loop does not skip ("if not chunk or not chunk.choices: continue")
Usable(chunks) == SelectSeq(chunks, LAMBDA c : c.has_choice)

\* the ("content_delta", ...) events of the chunks, in order
ContentDeltas(chunks) ==
    LET step(acc, c) == IF Truthy(c.content) THEN Append(acc, ContentDeltaEvent(c.content)) ELSE acc
    IN  FoldLeft(step, <<>>, Usable(chunks))

\* "".join(content_parts).strip() or None
FullContent(chunks) ==
    LET step(acc, c) == IF Truthy(c.content) THEN acc \o c.content ELSE acc
        joined == Strip(FoldLeft(step, <<>>, Usable(chunks)))
    IN  IF joined = <<>> THEN None ELSE joined

\* finish_reason after the loop: the last non-empty native status, "stop" when there is none
LastFinish(chunks) ==
    LET step(acc, c) == IF NativeTruthy(c.finish_reason) THEN c.finish_reason ELSE acc
    IN  FoldLeft(step, "stop", Usable(chunks))

\* all tool-call deltas of the chunks, in arrival order
AllDeltas(chunks) ==
    LET step(acc, c) == acc \o c.tool_calls
    IN  FoldLeft(step, <<>>, Usable(chunks))

SlotOf(slots, index) ==
    IF \E i \in 1..Len(slots) : slots[i].index = index
    THEN CHOOSE i \in 1..Len(slots) : slots[i].index = index
    ELSE 0

\* tool_calls_by_index after one delta (openai.py:302-319, llama_cpp.py:296-315): the dict
\* is kept as the sequence of its entries in insertion order; fragment is the text appended
AccumulateDelta(slots, d, fragment) ==
    LET created == IF SlotOf(slots, d.index) = 0
                   THEN Append(slots, [index |-> d.index, id |-> d.id, name |-> d.name,
                                       arguments |-> ""])
                   ELSE slots
        i == SlotOf(created, d.index)
    IN  [created EXCEPT ![i] =
            [index |-> d.index,
             id |-> IF d.id # "" THEN d.id ELSE created[i].id,
             name |-> IF d.name # "" THEN d.name ELSE created[i].name,
             arguments |-> created[i].arguments \o fragment]]

\* "if fn and fn.arguments: t['arguments'] += fn.arguments"
OpenAIFragment(d) == IF d.arguments.t = "str" THEN d.arguments.v ELSE ""

OpenAI_tool_calls_by_index(chunks) ==
    LET step(slots, d) == AccumulateDelta(slots, d, OpenAIFragment(d))
    IN  FoldLeft(step, <<>>, AllDeltas(chunks))

\* openai.py:324-342: arguments that do not parse are kept as the accumulated string
OpenAIStreamedCall(t) ==
    [id |-> t.id, name |-> t.name,
     arguments |-> IF json_loads(PyStr(t.arguments)).ok THEN json_loads(PyStr(t.arguments)).val
                   ELSE PyStr(t.arguments)]

\* variant: a transport failure leaves the generator as an exception, no message is yielded
OpenAI_chat_with_tools_stream_raises(sr) ==
    LET chunks == Delivered(sr)
        calls == SeqMap(OpenAIStreamedCall, OpenAI_tool_calls_by_index(chunks))
    IN  IF ~sr.provider_ok \/ Fails(sr) THEN ContentDeltas(chunks)
        ELSE ContentDeltas(chunks) \o
             <<MessageEvent([content |-> FullContent(chunks), tool_calls |-> calls,
                             finish_reason |-> IF calls # <<>> THEN "tool_calls"
                                               ELSE LastFinish(chunks)])>>

\* OpenAIClient.chat_with_tools_stream: the events it yields
OpenAI_chat_with_tools_stream(sr) ==
    LET chunks == Delivered(sr)
        calls == SeqMap(OpenAIStreamedCall, OpenAI_tool_calls_by_index(chunks))
    IN  IF ~sr.provider_ok THEN <<MessageEvent(ErrorResponse)>>
        ELSE IF Fails(sr) THEN ContentDeltas(chunks) \o <<MessageEvent(ErrorResponse)>>
        ELSE ContentDeltas(chunks) \o
             <<MessageEvent([content |-> FullContent(chunks), tool_calls |-> calls,
                             finish_reason |-> IF calls # <<>> THEN "tool_calls"
                                               ELSE LastFinish(chunks)])>>

\* "if arg is not None: t['arguments'] += arg if isinstance(arg, str) else json.dumps(arg)"
LlamaCppFragment(d) ==
    IF d.arguments = PyNone THEN ""
    ELSE IF d.arguments.t = "str" THEN d.arguments.v
    ELSE d.arguments.v

\* chunks read before the "[DONE]" line (carried as done = TRUE)
BeforeDone(chunks) ==
    IF \E i \in 1..Len(chunks) : chunks[i].done
    THEN SubSeq(chunks, 1, (CHOOSE i \in 1..Len(chunks) :
                               chunks[i].done /\ \A j \in 1..(i - 1) : ~chunks[j].done) - 1)
    ELSE chunks

LlamaCpp_tool_calls_by_index(chunks) ==
    LET step(slots, d) == AccumulateDelta(slots, d, LlamaCppFragment(d))
    IN  FoldLeft(step, <<>>, AllDeltas(chunks))

\* sorted(tool_calls_by_index.keys())
RECURSIVE SortedByIndex(_)
SortedByIndex(slots) ==
    IF slots = <<>> THEN <<>>
    ELSE LET m == CHOOSE i \in 1..Len(slots) : \A j \in 1..Len(slots) : slots[i].index <= slots[j].index
         IN  <<slots[m]>> \o SortedByIndex(SubSeq(slots, 1, m - 1) \o SubSeq(slots, m + 1, Len(slots)))

\* one entry of LlamaCppClient._streamed_tool_calls_to_list: unparsable arguments become {}
LlamaCppStreamedCall(t) ==
    LET args_str == IF t.arguments # "" THEN t.arguments ELSE EmptyObjText
    IN  [id |-> t.id, name |-> t.name,
         arguments |-> IF json_loads(PyStr(args_str)).ok THEN json_loads(PyStr(args_str)).val
                       ELSE PyDict(EmptyObjText)]

LlamaCpp_streamed_tool_calls_to_list(slots) == SeqMap(LlamaCppStreamedCall, SortedByIndex(slots))

\* LlamaCppClient.chat_with_tools_stream: the events it yields
LlamaCpp_chat_with_tools_stream(sr) ==
    LET chunks == BeforeDone(Delivered(sr))
        calls == LlamaCpp_streamed_tool_calls_to_list(LlamaCpp_tool_calls_by_index(chunks))
    IN  IF ~sr.provider_ok THEN <<MessageEvent(ErrorResponse)>>
        ELSE IF Fails(sr) /\ Len(Delivered(sr)) = Len(chunks)
        THEN ContentDeltas(chunks) \o <<MessageEvent(ErrorResponse)>>
        ELSE ContentDeltas(chunks) \o
             <<MessageEvent([content |-> FullContent(chunks), tool_calls |-> calls,
                             finish_reason |-> IF calls # <<>> THEN "tool_calls"
                                               ELSE LastFinish(chunks)])>>

\* position of the chunk at which the Ollama loop breaks (the first chunk with a message
\* and done set), 0 when there is none
OllamaDoneAt(chunks) ==
    IF \E i \in 1..Len(chunks) : chunks[i].has_choice /\ chunks[i].done
    THEN CHOOSE i \in 1..Len(chunks) :
            /\ chunks[i].has_choice /\ chunks[i].done
            /\ \A j \in 1..(i - 1) : ~(chunks[j].has_choice /\ chunks[j].done)
    ELSE 0

\* OllamaClient.chat_with_tools_stream: the events it yields
Ollama_chat_with_tools_stream(sr) ==
    LET chunks == Delivered(sr)
        at == OllamaDoneAt(chunks)
        read == SubSeq(chunks, 1, at)
        calls == parse_tool_calls_from_message(chunks[at].tool_calls)
    IN  IF ~sr.provider_ok THEN <<MessageEvent(ErrorResponse)>>
        ELSE IF at # 0
        THEN ContentDeltas(read) \o
             <<MessageEvent([content |-> FullContent(read), tool_calls |-> calls,
                             finish_reason |-> IF calls # <<>> THEN "tool_calls" ELSE "stop"])>>
        ELSE IF Fails(sr) THEN ContentDeltas(chunks) \o <<MessageEvent(ErrorResponse)>>
        ELSE ContentDeltas(chunks) \o
             <<MessageEvent([content |-> FullContent(chunks), tool_calls |-> <<>>,
                             finish_reason |-> "stop"])>>

\* finish_reason after the Gemini loop (gemini.py:387, 402-413)
GeminiLastFinish(chunks) ==
    LET step(acc, c) ==
            IF ~NativeTruthy(c.finish_reason) THEN acc
            ELSE IF c.finish_reason = "STOP" THEN "stop"
            ELSE IF c.finish_reason = "MAX_TOKENS" THEN "length"
            ELSE IF c.finish_reason \in {"SAFETY", "RECITATION"} THEN "error"
            ELSE acc
    IN  FoldLeft(step, "stop", Usable(chunks))

GeminiSlotOf(slots, name) ==
    IF \E i \in 1..Len(slots) : slots[i].name = name
    THEN CHOOSE i \in 1..Len(slots) : slots[i].name = name /\ \A j \in 1..(i - 1) : slots[j].name # name
    ELSE 0

\* tool_calls_by_index after one function_call part (gemini.py:421-457): the slot is found
\* by name; non-empty arguments are appended as json.dumps text
GeminiAccumulate(slots, d) ==
    LET created == IF GeminiSlotOf(slots, d.name) = 0
                   THEN Append(slots, [index |-> Len(slots), id |-> d.name, name |-> d.name,
                                       arguments |-> ""])
                   ELSE slots
        i == GeminiSlotOf(created, d.name)
        arguments == IF ValueTruthy(d.arguments) /\ d.arguments.t = "dict" THEN d.arguments
                     ELSE PyDict(EmptyObjText)
    IN  IF ValueTruthy(arguments)
        THEN [created EXCEPT ![i].arguments = created[i].arguments \o arguments.v]
        ELSE created

Gemini_tool_calls_by_index(chunks) == FoldLeft(GeminiAccumulate, <<>>, AllDeltas(chunks))

\* GeminiClient.chat_with_tools_stream: the events it yields
Gemini_chat_with_tools_stream(sr) ==
    LET chunks == Delivered(sr)
        calls == SeqMap(OpenAIStreamedCall, Gemini_tool_calls_by_index(chunks))
    IN  IF ~sr.provider_ok THEN <<MessageEvent(ErrorResponse)>>
        ELSE IF Fails(sr) THEN ContentDeltas(chunks) \o <<MessageEvent(ErrorResponse)>>
        ELSE ContentDeltas(chunks) \o
             <<MessageEvent([content |-> FullContent(chunks), tool_calls |-> calls,
                             finish_reason |-> IF calls # <<>> THEN "tool_calls"
                                               ELSE GeminiLastFinish(chunks)])>>

\* genai_client.chat_with_tools_stream(...) of the bound adapter class
chat_with_tools_stream(a, sr) ==
    CASE a = "openai" -> OpenAI_chat_with_tools_stream(sr)
      [] a = "gemini" -> Gemini_chat_with_tools_stream(sr)
      [] a = "ollama" -> Ollama_chat_with_tools_stream(sr)
      [] a = "llama_cpp" -> LlamaCpp_chat_with_tools_stream(sr)

----------------------------------------------------------------------------
(* Raw provider output handed to an adapter *)

RawCall(id, name, arguments) == [id |-> id, name |-> name, arguments |-> arguments]

\* argument payloads a provider of the given class can put into a tool call
RawArguments(a) ==
    IF a = "gemini" THEN {PyDict(ObjText), PyNone}
    ELSE IF a = "ollama" THEN {PyDict(ObjText), PyStr(ObjText), PyStr(BadText)}
    ELSE {PyStr(ObjText), PyStr(ListText), PyStr(BadText), PyNone}

RawCalls(a) ==
    {RawCall(IF a = "gemini" THEN "" ELSE "call_1", "search_objects", x) : x \in RawArguments(a)}

\* native finish statuses of each provider class ("None": the field is absent)
NativeFinish(a) ==
    IF a = "gemini" THEN {"None", "STOP", "MAX_TOKENS", "SAFETY", "OTHER"}
    ELSE IF a = "ollama" THEN {"None"}
    ELSE {"None", "stop", "length", "tool_calls", "content_filter"}

RawContents == {None, <<"o", "k">>, <<" ">>}

RECURSIVE SeqsUpTo(_, _)
SeqsUpTo(S, n) ==
    IF n = 0 THEN {<<>>}
    ELSE SeqsUpTo(S, n - 1) \cup {Append(q, x) : q \in {p \in SeqsUpTo(S, n - 1) : Len(p) = n - 1}, x \in S}

RawRecord(transport, provider_ok, has_choice, has_message, content, calls, finish_reason, done) ==
    [transport |-> transport, provider_ok |-> provider_ok, has_choice |-> has_choice,
     has_message |-> has_message, content |-> content, tool_calls |-> calls,
     finish_reason |-> finish_reason, done |-> done]

\* the call failed before any payload was read
FailedRaws ==
    {RawRecord(t, p, FALSE, FALSE, None, <<>>, "None", FALSE) :
        t \in {"ok", "timeout", "raise"}, p \in BOOLEAN}

\* the call delivered a payload
DeliveredRaws(a) ==
    {RawRecord("ok", TRUE, TRUE, m, c, q, f, d) :
        m \in (IF a = "llama_cpp" THEN BOOLEAN ELSE {TRUE}),
        c \in RawContents, q \in SeqsUpTo(RawCalls(a), MaxCalls),
        f \in NativeFinish(a), d \in (IF a = "ollama" THEN BOOLEAN ELSE {TRUE})}

Raws(a) == FailedRaws \cup DeliveredRaws(a)

----------------------------------------------------------------------------
(* Conversation, responses, frames *)

Message(role, content, tool_call_id, calls) ==
    [role |-> role, content |-> content, tool_call_id |-> tool_call_id, tool_calls |-> calls]

\* one entry of the assistant message's "tool_calls"
AssistantToolCall(tc) ==
    [id |-> tc.id, type |-> "function", name |-> tc.name,
     arguments |-> json_dumps(IF ValueTruthy(tc.arguments) THEN tc.arguments
                              ELSE PyDict(EmptyObjText))]

build_assistant_message_for_conversation(content, tool_calls_raw) ==
    Message("assistant", content, "", SeqMap(AssistantToolCall, tool_calls_raw))

GenericError == Opaque("An error occurred while processing your request.")
MaxIterationsMessage ==
    Opaque("I reached the maximum number of tool call iterations. Please try rephrasing your question.")

NoResponse ==
    [kind |-> "none", status |-> 0, keys |-> {}, error |-> None, content |-> None,
     finish_reason |-> "", tool_iterations |-> 0, tool_calls |-> <<>>]

\* JSONResponse(content={"error": ...}, status_code=500)
ErrorJSONResponse ==
    [kind |-> "json", status |-> 500, keys |-> {"error"}, error |-> GenericError,
     content |-> None, finish_reason |-> "", tool_iterations |-> 0, tool_calls |-> <<>>]

\* JSONResponse(content=ChatCompletionResponse(...).model_dump())
CompletionJSONResponse(content, finish_reason, iterations, calls) ==
    [kind |-> "json", status |-> 200,
     keys |-> {"message", "finish_reason", "tool_iterations", "tool_calls"},
     error |-> None, content |-> content, finish_reason |-> finish_reason,
     tool_iterations |-> iterations, tool_calls |-> calls]

\* StreamingResponse(generator, media_type="application/x-ndjson")
StreamingResponse ==
    [kind |-> "stream", status |-> 200, keys |-> {}, error |-> None, content |-> None,
     finish_reason |-> "", tool_iterations |-> 0, tool_calls |-> <<>>]

ContentFrame(delta) == [type |-> "content", delta |-> delta, tool_calls |-> <<>>, error |-> None]
ToolCallsFrame(calls) == [type |-> "tool_calls", delta |-> None, tool_calls |-> calls, error |-> None]
DoneFrame == [type |-> "done", delta |-> None, tool_calls |-> <<>>, error |-> None]
ErrorFrame == [type |-> "error", delta |-> None, tool_calls |-> <<>>, error |-> GenericError]

----------------------------------------------------------------------------
(* Tool execution *)

\* ToolCall(name=..., arguments=..., response=...): pydantic accepts only a dict as arguments
ToolCallValid(tool_args) == tool_args.t = "dict"

ToolCall(name, tool_args, resp) == [name |-> name, arguments |-> tool_args, response |-> resp]

\* what _execute_tool_internal can do for this call: return a result ("ok"), return an
\* {"error": ...} dict ("error"), or raise ("raise")
_execute_tool_internal(tool_name, tool_args) ==
    IF tool_name = "search_objects"
    THEN IF tool_args.t = "dict" THEN {"ok", "error", "raise"} ELSE {"raise"}
    ELSE IF tool_name = "get_live_context"
    THEN IF tool_args.t # "dict" THEN {"raise"}
         ELSE IF tool_args = PyDict(EmptyObjText) THEN {"error"}
         ELSE {"ok", "error"}
    ELSE {"error"}

\* result_content / error_content of _execute_pending_tools
ResultContent(outcome) ==
    IF outcome = "ok" THEN Opaque("{result}")
    ELSE IF outcome = "error" THEN Opaque("{\"error\": ...}")
    ELSE Opaque("{\"error\": \"Tool execution failed: ...\"}")

ToolMessage(tool_call_id, content) == Message("tool", content, tool_call_id, <<>>)

----------------------------------------------------------------------------
(* _chunk_content *)

DefaultChunkSize == 80

\* str.split(" ")
RECURSIVE Split(_)
Split(s) ==
    IF \A i \in 1..Len(s) : s[i] # " " THEN <<s>>
    ELSE LET i == CHOOSE k \in 1..Len(s) : s[k] = " " /\ \A j \in 1..(k - 1) : s[j] # " "
         IN  <<SubSeq(s, 1, i - 1)>> \o Split(SubSeq(s, i + 1, Len(s)))

\* " ".join(words)
RECURSIVE Join(_)
Join(words) ==
    IF words = <<>> THEN <<>>
    ELSE IF Len(words) = 1 THEN words[1]
    ELSE words[1] \o <<" ">> \o Join(Tail(words))

\* the for loop of _chunk_content and the trailing "if current"
RECURSIVE ChunkLoop(_, _, _, _)
ChunkLoop(words, current, current_len, chunk_size) ==
    IF words = <<>> THEN (IF current # <<>> THEN <<Join(current)>> ELSE <<>>)
    ELSE LET cur == Append(current, Head(words))
             len == current_len + Len(Head(words)) + 1
         IN  IF len >= chunk_size
             THEN <<Join(cur) \o <<" ">>>> \o ChunkLoop(Tail(words), <<>>, 0, chunk_size)
             ELSE ChunkLoop(Tail(words), cur, len, chunk_size)

\* the sequence of fragments the generator yields
_chunk_content(content, chunk_size) ==
    IF content = <<>> THEN <<>> ELSE ChunkLoop(Split(content), <<>>, 0, chunk_size)

----------------------------------------------------------------------------
(* chat_completion *)

\* hasattr(genai_client, "chat_with_tools_stream")
HasStream(a) == a # "azure_openai"

\* the request is served by stream_body_llm
Native == stream /\ HasStream(adapter)

SystemMessage == Message("system", Opaque("You are a helpful assistant for Frigate ..."), "", <<>>)
UserMessage == Message("user", <<"h", "i">>, "", <<>>)

\* provider outputs explored by the agent loop
OrchArguments(a) == IF a = "gemini" THEN PyDict(ObjText) ELSE PyStr(ObjText)
OrchCallA(a) == RawCall(IF a = "gemini" THEN "" ELSE "call_1", "search_objects", OrchArguments(a))
OrchCallB(a) == RawCall(IF a = "gemini" THEN "" ELSE "call_2", "get_live_context", OrchArguments(a))
OrchCallL(a) == RawCall("call_3", "unknown_tool", PyStr(ListText))
OrchCallLists(a) ==
    {<<>>, <<OrchCallA(a)>>, <<OrchCallA(a), OrchCallB(a)>>}
        \cup (IF a = "gemini" THEN {} ELSE {<<OrchCallL(a)>>})
OrchFinish(a) ==
    IF a = "gemini" THEN {"STOP", "MAX_TOKENS"}
    ELSE IF a = "ollama" THEN {"None"}
    ELSE {"stop", "length", "tool_calls"}
OrchRaws(a) ==
    {RawRecord("raise", TRUE, FALSE, FALSE, None, <<>>, "None", FALSE)}
        \cup {RawRecord("ok", TRUE, TRUE, TRUE, c, q, f, TRUE) :
                c \in {None, <<"o", "k">>}, q \in OrchCallLists(a), f \in OrchFinish(a)}

NoRaw == RawRecord("ok", TRUE, FALSE, FALSE, None, <<>>, "None", FALSE)

\* provider streams explored by the agent loop
ObjFrag1 == "{\"camera\": "
ObjFrag2 == "\"front_door\"}"
TextChunk == Chunk(TRUE, <<"o", "k">>, <<>>, "None", FALSE)
MoreTextChunk == Chunk(TRUE, <<"!">>, <<>>, "None", FALSE)
CallChunk(deltas) == Chunk(TRUE, None, deltas, "None", FALSE)
FinishChunk(f) == Chunk(TRUE, None, <<>>, f, FALSE)
OpenAIStreams ==
    LET a1 == CallChunk(<<Delta(0, "call_1", "search_objects", PyStr(ObjFrag1))>>)
        a2 == CallChunk(<<Delta(0, "", "", PyStr(ObjFrag2))>>)
        b == CallChunk(<<Delta(1, "call_2", "get_live_context", PyStr(ObjText))>>)
    IN  {<<TextChunk, FinishChunk("stop")>>,
         <<FinishChunk("length")>>,
         <<TextChunk, a1, a2, FinishChunk("tool_calls")>>,
         <<a1, b, a2, FinishChunk("stop")>>,
         <<a1, FinishChunk("tool_calls")>>}
OllamaStreams ==
    LET a == Delta(0, "call_1", "search_objects", PyStr(ObjText))
        b == Delta(0, "call_2", "get_live_context", PyDict(ObjText))
        l == Delta(0, "call_3", "unknown_tool", PyStr(ListText))
    IN  {<<TextChunk, Chunk(TRUE, None, <<>>, "None", TRUE)>>,
         <<TextChunk>>,
         <<TextChunk, Chunk(TRUE, None, <<a>>, "None", TRUE)>>,
         <<Chunk(TRUE, None, <<a, b>>, "None", TRUE)>>,
         <<Chunk(TRUE, None, <<l>>, "None", TRUE)>>}
GeminiStreams ==
    LET a == CallChunk(<<Delta(0, "", "search_objects", PyDict(ObjText))>>)
        b == CallChunk(<<Delta(0, "", "get_live_context", PyDict(ObjText))>>)
    IN  {<<TextChunk, FinishChunk("STOP")>>,
         <<FinishChunk("MAX_TOKENS")>>,
         <<TextChunk, a, FinishChunk("STOP")>>,
         <<a, b, FinishChunk("STOP")>>,
         <<a, a, FinishChunk("STOP")>>}
OrchStreams(a) ==
    IF a = "ollama" THEN OllamaStreams
    ELSE IF a = "gemini" THEN GeminiStreams
    ELSE OpenAIStreams
OrchStreamRaws(a) ==
    {StreamRaw(TRUE, -1, c) : c \in OrchStreams(a)}
        \cup {StreamRaw(TRUE, n, <<TextChunk, FinishChunk("None")>>) : n \in 0..1}
        \cup {StreamRaw(TRUE, -1, <<TextChunk, MoreTextChunk>>)}

\* values of the loop variables when the agent loop is entered (chat.py:587-634)
LoopEntry ==
    /\ conversation = <<SystemMessage, UserMessage>>
    /\ tool_iterations = 0
    /\ tool_calls = <<>>
    /\ stream_iterations = 0
    /\ stream_tool_calls = <<>>
    /\ provider_calls = 0
    /\ requested = <<>>
    /\ turn_start = 2
    /\ events = <<>>
    /\ pending = <<>>
    /\ tool_calls_out = <<>>
    /\ tool_results = <<>>
    /\ to_yield = <<>>
    /\ frames = <<>>
    /\ last_finish = ""
    /\ final_native = ""
    /\ frame_turn = <<>>

\* the units checked on their own are not running
ChunkIdle ==
    /\ answer = <<>>
    /\ parts = <<>>
    /\ delivered = <<>>

BuildIdle ==
    /\ body_messages = <<>>
    /\ live_camera = "none"
    /\ first_user_message_seen = FALSE
    /\ init_conversation = <<>>
    /\ frame_reads = 0

\* a client handle is 0 for None, i for the client built from the i-th entry, -1 for a
\* client built before this rebuild
NoClients == [tools |-> 0, vision |-> 0, embeddings |-> 0]

ManagerIdle ==
    /\ genai_config = <<>>
    /\ role_clients = NoClients
    /\ entries_done = 0
    /\ init_provider = <<>>

NoResult == [error |-> "", camera |-> "", timestamp |-> 0, detections |-> <<>>]

LiveIdle ==
    /\ glc_camera = "none"
    /\ glc_fault = "none"
    /\ state_tracked_objects = <<>>
    /\ obj_frame_time = <<>>
    /\ state_current_frame_time = 0
    /\ current_frame_lock = "free"
    /\ tracked_objects = <<>>
    /\ frame_time = 0
    /\ glc_remaining = <<>>
    /\ tracked_objects_dict = <<>>
    /\ glc_result = NoResult
    /\ glc_history = [state_reads |-> 0, lock_acquisitions |-> 0]

SearchIdle ==
    /\ search_arguments = [after |-> PyNone, before |-> PyNone]
    /\ after = PyNone
    /\ before = PyNone
    /\ query_params = [after |-> PyNone, before |-> PyNone]
    /\ search_warnings = {}

\* the threads that call start_media_sync_job
SyncCallers == {"a", "b"}

SyncIdle ==
    /\ sync_pc = [c \in SyncCallers |-> "idle"]
    /\ sync_seen = [c \in SyncCallers |-> 0]
    /\ sync_job = [c \in SyncCallers |-> 0]
    /\ sync_returned = [c \in SyncCallers |-> -1]
    /\ sync_calls = 0
    /\ jobs = <<>>
    /\ current_job = 0
    /\ completed_jobs = {}
    /\ runner_pc = <<>>
    /\ broadcast_failures = {}

AdapterIdle == stream_input = StreamRaw(TRUE, -1, <<>>)

TrackerIdle ==
    /\ snapshot_frame_times = <<>>
    /\ tracker_frames = 0

ReaderIdle == tool_client_reads = {}

CancelIdle ==
    /\ consumer = "connected"
    /\ adapter_generator = "none"
    /\ open_connection = "none"

UnitsIdle == ChunkIdle /\ BuildIdle /\ ManagerIdle /\ LiveIdle /\ SearchIdle /\ SyncIdle /\ AdapterIdle /\ TrackerIdle /\ ReaderIdle /\ CancelIdle

\* state when the agent loop is entered (chat.py:622-632); with a native stream the
\* StreamingResponse is returned before its generator runs (chat.py:700-704)
Init ==
    /\ adapter \in Adapters
    /\ stream \in BOOLEAN
    /\ max_iterations \in 1..MaxCap
    /\ pc = IF stream /\ HasStream(adapter) THEN "llm_while" ELSE "while"
    /\ response = IF stream /\ HasStream(adapter) THEN StreamingResponse ELSE NoResponse
    /\ LoopEntry
    /\ raw = NoRaw
    /\ result = ErrorResponse
    /\ UnitsIdle

\* variant: the loop condition is off by one
LoopContinues_inclusive == tool_iterations <= max_iterations

\* while tool_iterations < max_iterations (chat.py:707)
LoopContinues == tool_iterations < max_iterations

\* variant: the content is passed on without the "or ''"
FinalContent_raw(content) == content

\* final_content = response.get("content") or "" (chat.py:738)
FinalContent(content) == IF Truthy(content) THEN content ELSE <<>>

\* variant: the Gemini adapter takes the system message out of the caller's list
MessagesAfterCall_system_removed(a, messages) ==
    IF a = "gemini" /\ messages # <<>> /\ messages[1].role = "system"
    THEN Tail(messages) ELSE messages

\* the caller's list of messages when an adapter call has returned: every adapter builds
\* its request from new lists and dicts and only reads the list it is given
\* (ollama.py:100-112, gemini.py:94-140, openai.py:145-149, llama_cpp.py:124-126)
MessagesAfterCall(a, messages) == messages

\* chat.py:712-725: the provider turn ends with finish_reason "error"
CallProviderError ==
    /\ pc = "while"
    /\ LoopContinues
    /\ \E r \in OrchRaws(adapter) :
          LET resp == chat_with_tools(adapter, r)
          IN  /\ resp.finish_reason = "error"
              /\ requested' = resp.tool_calls
              /\ last_finish' = resp.finish_reason
    /\ provider_calls' = provider_calls + 1
    /\ conversation' = MessagesAfterCall(adapter, conversation)
    /\ turn_start' = Len(conversation)
    /\ response' = ErrorJSONResponse
    /\ pc' = "done"
    /\ UNCHANGED <<adapter, stream, max_iterations, tool_iterations, tool_calls,
                   stream_iterations, stream_tool_calls, events, pending, tool_calls_out,
                   tool_results, to_yield, frames, final_native, frame_turn,
                   raw, result>>
    /\ UNCHANGED unitVars

\* frames of stream_body (chat.py:742-763)
stream_body(calls, final_content) ==
    (IF calls # <<>> THEN <<ToolCallsFrame(calls)>> ELSE <<>>)
        \o SeqMap(ContentFrame, _chunk_content(final_content, DefaultChunkSize))
        \o <<DoneFrame>>

\* chat.py:712-781: the provider turn carries no tool calls
CallProviderFinal ==
    /\ pc = "while"
    /\ LoopContinues
    /\ \E r \in OrchRaws(adapter) :
          LET resp == chat_with_tools(adapter, r)
              final_content == FinalContent(resp.content)
          IN  /\ resp.finish_reason # "error"
              /\ resp.tool_calls = <<>>
              /\ requested' = resp.tool_calls
              /\ last_finish' = resp.finish_reason
              /\ final_native' = r.finish_reason
              /\ conversation' = Append(MessagesAfterCall(adapter, conversation),
                     build_assistant_message_for_conversation(resp.content, resp.tool_calls))
              /\ IF stream
                 THEN /\ response' = StreamingResponse
                      /\ to_yield' = stream_body(tool_calls, final_content)
                      /\ pc' = "stream_body"
                 ELSE /\ response' = CompletionJSONResponse(final_content, resp.finish_reason,
                                                            tool_iterations, tool_calls)
                      /\ to_yield' = to_yield
                      /\ pc' = "done"
    /\ provider_calls' = provider_calls + 1
    /\ turn_start' = Len(conversation)
    /\ UNCHANGED <<adapter, stream, max_iterations, tool_iterations, tool_calls,
                   stream_iterations, stream_tool_calls, events, pending, tool_calls_out,
                   tool_results, frames, frame_turn,
                   raw, result>>
    /\ UNCHANGED unitVars

\* chat.py:712-790: the provider turn requests tools
CallProviderTools ==
    /\ pc = "while"
    /\ LoopContinues
    /\ \E r \in OrchRaws(adapter) :
          LET resp == chat_with_tools(adapter, r)
          IN  /\ resp.finish_reason # "error"
              /\ resp.tool_calls # <<>>
              /\ requested' = resp.tool_calls
              /\ last_finish' = resp.finish_reason
              /\ conversation' = Append(MessagesAfterCall(adapter, conversation),
                     build_assistant_message_for_conversation(resp.content, resp.tool_calls))
              /\ pending' = resp.tool_calls
    /\ provider_calls' = provider_calls + 1
    /\ turn_start' = Len(conversation)
    /\ tool_iterations' = tool_iterations + 1
    /\ tool_calls_out' = <<>>
    /\ tool_results' = <<>>
    /\ pc' = "tools"
    /\ UNCHANGED <<adapter, stream, max_iterations, tool_calls, stream_iterations,
                   stream_tool_calls, events, to_yield, frames, response, final_native, frame_turn,
                   raw, result>>
    /\ UNCHANGED unitVars

\* tool_args = tool_call.get("arguments") or {}
ToolArgs(tool_call) ==
    IF ValueTruthy(tool_call.arguments) THEN tool_call.arguments ELSE PyDict(EmptyObjText)

\* variant: the loop takes the pending calls from the last to the first
ExecuteTool_reversed ==
    /\ pc = "tools"
    /\ pending # <<>>
    /\ LET tool_call == pending[Len(pending)]
           tool_args == ToolArgs(tool_call)
       IN  /\ ToolCallValid(tool_args)
           /\ \E outcome \in _execute_tool_internal(tool_call.name, tool_args) :
                 /\ tool_calls_out' = Append(tool_calls_out,
                        ToolCall(tool_call.name, tool_args, ResultContent(outcome)))
                 /\ tool_results' = Append(tool_results,
                        ToolMessage(tool_call.id, ResultContent(outcome)))
    /\ pending' = SubSeq(pending, 1, Len(pending) - 1)
    /\ UNCHANGED <<adapter, stream, max_iterations, pc, conversation, tool_iterations,
                   tool_calls, stream_iterations, stream_tool_calls, provider_calls,
                   requested, turn_start, events, to_yield, frames, response, last_finish,
                   final_native, frame_turn, raw, result>>
    /\ UNCHANGED unitVars

\* variant: the except branch only logs, a tool that raises leaves no tool message
ExecuteTool_raise_dropped ==
    /\ pc = "tools"
    /\ pending # <<>>
    /\ LET tool_call == Head(pending)
           tool_args == ToolArgs(tool_call)
       IN  /\ ToolCallValid(tool_args)
           /\ \E outcome \in _execute_tool_internal(tool_call.name, tool_args) :
                 IF outcome = "raise"
                 THEN UNCHANGED <<tool_calls_out, tool_results>>
                 ELSE /\ tool_calls_out' = Append(tool_calls_out,
                             ToolCall(tool_call.name, tool_args, ResultContent(outcome)))
                      /\ tool_results' = Append(tool_results,
                             ToolMessage(tool_call.id, ResultContent(outcome)))
    /\ pending' = Tail(pending)
    /\ UNCHANGED <<adapter, stream, max_iterations, pc, conversation, tool_iterations,
                   tool_calls, stream_iterations, stream_tool_calls, provider_calls,
                   requested, turn_start, events, to_yield, frames, response, last_finish,
                   final_native, frame_turn, raw, result>>
    /\ UNCHANGED unitVars

\* one pass of the for loop of _execute_pending_tools (chat.py:431-501)
ExecuteTool ==
    /\ pc = "tools"
    /\ pending # <<>>
    /\ LET tool_call == Head(pending)
           tool_args == ToolArgs(tool_call)
       IN  /\ ToolCallValid(tool_args)
           /\ \E outcome \in _execute_tool_internal(tool_call.name, tool_args) :
                 /\ tool_calls_out' = Append(tool_calls_out,
                        ToolCall(tool_call.name, tool_args, ResultContent(outcome)))
                 /\ tool_results' = Append(tool_results,
                        ToolMessage(tool_call.id, ResultContent(outcome)))
    /\ pending' = Tail(pending)
    /\ UNCHANGED <<adapter, stream, max_iterations, pc, conversation, tool_iterations,
                   tool_calls, stream_iterations, stream_tool_calls, provider_calls,
                   requested, turn_start, events, to_yield, frames, response, last_finish, final_native, frame_turn,
                   raw, result>>
    /\ UNCHANGED unitVars

\* variant: chat_completion has no "except Exception" around the loop
ExecuteToolRejected_uncaught ==
    /\ pc = "tools"
    /\ pending # <<>>
    /\ ~ToolCallValid(ToolArgs(Head(pending)))
    /\ pc' = "raised"
    /\ UNCHANGED <<adapter, stream, max_iterations, conversation, tool_iterations,
                   tool_calls, stream_iterations, stream_tool_calls, provider_calls,
                   requested, turn_start, events, pending, tool_calls_out, tool_results,
                   to_yield, frames, response, last_finish, final_native, frame_turn,
                   raw, result>>
    /\ UNCHANGED unitVars

\* the for loop pass in which ToolCall(...) rejects the arguments: the ValidationError is
\* raised at chat.py:472, caught at 482, raised again at 492 inside the handler and leaves
\* _execute_pending_tools; chat_completion catches it at 814, stream_body_llm does not
ExecuteToolRejected ==
    /\ pc = "tools"
    /\ pending # <<>>
    /\ ~ToolCallValid(ToolArgs(Head(pending)))
    /\ IF Native
       THEN /\ pc' = "raised"
            /\ response' = response
       ELSE /\ pc' = "done"
            /\ response' = ErrorJSONResponse
    /\ UNCHANGED <<adapter, stream, max_iterations, conversation, tool_iterations,
                   tool_calls, stream_iterations, stream_tool_calls, provider_calls,
                   requested, turn_start, events, pending, tool_calls_out, tool_results,
                   to_yield, frames, last_finish, final_native, frame_turn,
                   raw, result>>
    /\ UNCHANGED unitVars

\* _execute_pending_tools returns to the blocking loop (chat.py:788-796)
ToolsDone ==
    /\ pc = "tools"
    /\ pending = <<>>
    /\ ~Native
    /\ tool_calls' = tool_calls \o tool_calls_out
    /\ conversation' = conversation \o tool_results
    /\ pc' = "while"
    /\ UNCHANGED <<adapter, stream, max_iterations, tool_iterations, stream_iterations,
                   stream_tool_calls, provider_calls, requested, turn_start, events, pending,
                   tool_calls_out, tool_results, to_yield, frames, response, last_finish, final_native, frame_turn,
                   raw, result>>
    /\ UNCHANGED unitVars

\* the while condition fails (chat.py:798-812)
MaxIterationsReached ==
    /\ pc = "while"
    /\ ~LoopContinues
    /\ response' = CompletionJSONResponse(MaxIterationsMessage, "length",
                                          tool_iterations, tool_calls)
    /\ pc' = "done"
    /\ UNCHANGED <<adapter, stream, max_iterations, conversation, tool_iterations,
                   tool_calls, stream_iterations, stream_tool_calls, provider_calls,
                   requested, turn_start, events, pending, tool_calls_out, tool_results,
                   to_yield, frames, last_finish, final_native, frame_turn,
                   raw, result>>
    /\ UNCHANGED unitVars

\* stream_body yields its next frame (chat.py:742-763)
StreamBodyYield ==
    /\ pc = "stream_body"
    /\ to_yield # <<>>
    /\ frames' = Append(frames, Head(to_yield))
    /\ frame_turn' = Append(frame_turn, provider_calls)
    /\ to_yield' = Tail(to_yield)
    /\ pc' = IF Tail(to_yield) = <<>> THEN "done" ELSE "stream_body"
    /\ UNCHANGED <<adapter, stream, max_iterations, conversation, tool_iterations,
                   tool_calls, stream_iterations, stream_tool_calls, provider_calls,
                   requested, turn_start, events, pending, tool_calls_out, tool_results,
                   response, last_finish, final_native,
                   raw, result>>
    /\ UNCHANGED unitVars

\* stream_body_llm opens the next provider stream (chat.py:638-647)
LlmStreamStart ==
    /\ pc = "llm_while"
    /\ stream_iterations < max_iterations
    /\ \E sr \in OrchStreamRaws(adapter) : events' = chat_with_tools_stream(adapter, sr)
    /\ provider_calls' = provider_calls + 1
    /\ conversation' = MessagesAfterCall(adapter, conversation)
    /\ turn_start' = Len(conversation)
    /\ requested' = <<>>
    /\ pc' = "llm_stream"
    /\ UNCHANGED <<adapter, stream, max_iterations, tool_iterations,
                   tool_calls, stream_iterations, stream_tool_calls, pending,
                   tool_calls_out, tool_results, to_yield, frames, response, last_finish, final_native, frame_turn,
                   raw, result>>
    /\ UNCHANGED unitVars

\* variant: a content_delta that follows a content frame of the same turn is merged into it
LlmContentDelta_buffered ==
    /\ pc = "llm_stream"
    /\ events # <<>>
    /\ Head(events).kind = "content_delta"
    /\ IF frames # <<>> /\ frames[Len(frames)].type = "content"
          /\ frame_turn[Len(frame_turn)] = provider_calls
       THEN /\ frames' = [frames EXCEPT ![Len(frames)] =
                              ContentFrame(frames[Len(frames)].delta \o Head(events).value)]
            /\ frame_turn' = frame_turn
       ELSE /\ frames' = Append(frames, ContentFrame(Head(events).value))
            /\ frame_turn' = Append(frame_turn, provider_calls)
    /\ events' = Tail(events)
    /\ UNCHANGED <<adapter, stream, max_iterations, pc, conversation, tool_iterations,
                   tool_calls, stream_iterations, stream_tool_calls, provider_calls,
                   requested, turn_start, pending, tool_calls_out, tool_results, to_yield,
                   response, last_finish, final_native,
                   raw, result>>
    /\ UNCHANGED unitVars

\* a content_delta event is forwarded as a content frame (chat.py:649-655)
LlmContentDelta ==
    /\ pc = "llm_stream"
    /\ events # <<>>
    /\ Head(events).kind = "content_delta"
    /\ frames' = Append(frames, ContentFrame(Head(events).value))
    /\ frame_turn' = Append(frame_turn, provider_calls)
    /\ events' = Tail(events)
    /\ UNCHANGED <<adapter, stream, max_iterations, pc, conversation, tool_iterations,
                   tool_calls, stream_iterations, stream_tool_calls, provider_calls,
                   requested, turn_start, pending, tool_calls_out, tool_results, to_yield,
                   response, last_finish, final_native,
                   raw, result>>
    /\ UNCHANGED unitVars

\* variant: the error frame is written but the generator does not return
LlmMessageError_continues ==
    /\ pc = "llm_stream"
    /\ events # <<>>
    /\ Head(events).kind = "message"
    /\ Head(events).message.finish_reason = "error"
    /\ requested' = Head(events).message.tool_calls
    /\ last_finish' = Head(events).message.finish_reason
    /\ frames' = Append(frames, ErrorFrame)
    /\ frame_turn' = Append(frame_turn, provider_calls)
    /\ stream_iterations' = stream_iterations + 1
    /\ events' = <<>>
    /\ pc' = "llm_while"
    /\ UNCHANGED <<adapter, stream, max_iterations, conversation, tool_iterations,
                   tool_calls, stream_tool_calls, provider_calls,
                   turn_start, pending, tool_calls_out, tool_results, to_yield,
                   response, final_native, raw, result>>
    /\ UNCHANGED unitVars

\* a message event with finish_reason "error" (chat.py:656-668)
LlmMessageError ==
    /\ pc = "llm_stream"
    /\ events # <<>>
    /\ Head(events).kind = "message"
    /\ Head(events).message.finish_reason = "error"
    /\ requested' = Head(events).message.tool_calls
    /\ last_finish' = Head(events).message.finish_reason
    /\ frames' = Append(frames, ErrorFrame)
    /\ frame_turn' = Append(frame_turn, provider_calls)
    /\ events' = <<>>
    /\ pc' = "done"
    /\ UNCHANGED <<adapter, stream, max_iterations, conversation, tool_iterations,
                   tool_calls, stream_iterations, stream_tool_calls, provider_calls,
                   turn_start, pending, tool_calls_out, tool_results, to_yield,
                   response, final_native,
                   raw, result>>
    /\ UNCHANGED unitVars

\* variant: the tool_calls frame is written when the tool calls arrive, before they run
LlmMessageTools_frame_first ==
    /\ pc = "llm_stream"
    /\ events # <<>>
    /\ Head(events).kind = "message"
    /\ Head(events).message.finish_reason # "error"
    /\ Head(events).message.tool_calls # <<>>
    /\ requested' = Head(events).message.tool_calls
    /\ last_finish' = Head(events).message.finish_reason
    /\ stream_iterations' = stream_iterations + 1
    /\ conversation' = Append(conversation,
           build_assistant_message_for_conversation(Head(events).message.content,
                                                    Head(events).message.tool_calls))
    /\ pending' = Head(events).message.tool_calls
    /\ tool_calls_out' = <<>>
    /\ tool_results' = <<>>
    /\ frames' = Append(frames, ToolCallsFrame(stream_tool_calls))
    /\ frame_turn' = Append(frame_turn, provider_calls)
    /\ events' = Tail(events)
    /\ pc' = "tools"
    /\ UNCHANGED <<adapter, stream, max_iterations, tool_iterations, tool_calls,
                   stream_tool_calls, provider_calls, turn_start, to_yield,
                   response, final_native, raw, result>>
    /\ UNCHANGED unitVars

\* variant: a tool-requesting turn does not count as an iteration
LlmMessageTools_uncounted ==
    /\ pc = "llm_stream"
    /\ events # <<>>
    /\ Head(events).kind = "message"
    /\ Head(events).message.finish_reason # "error"
    /\ Head(events).message.tool_calls # <<>>
    /\ requested' = Head(events).message.tool_calls
    /\ last_finish' = Head(events).message.finish_reason
    /\ stream_iterations' = stream_iterations
    /\ conversation' = Append(conversation,
           build_assistant_message_for_conversation(Head(events).message.content,
                                                    Head(events).message.tool_calls))
    /\ pending' = Head(events).message.tool_calls
    /\ tool_calls_out' = <<>>
    /\ tool_results' = <<>>
    /\ events' = Tail(events)
    /\ pc' = "tools"
    /\ UNCHANGED <<adapter, stream, max_iterations, tool_iterations, tool_calls,
                   stream_tool_calls, provider_calls, turn_start, to_yield, frames,
                   response, final_native, frame_turn,
                   raw, result>>
    /\ UNCHANGED unitVars

\* a message event with tool calls, up to the call of _execute_pending_tools (chat.py:669-679)
LlmMessageTools ==
    /\ pc = "llm_stream"
    /\ events # <<>>
    /\ Head(events).kind = "message"
    /\ Head(events).message.finish_reason # "error"
    /\ Head(events).message.tool_calls # <<>>
    /\ requested' = Head(events).message.tool_calls
    /\ last_finish' = Head(events).message.finish_reason
    /\ stream_iterations' = stream_iterations + 1
    /\ conversation' = Append(conversation,
           build_assistant_message_for_conversation(Head(events).message.content,
                                                    Head(events).message.tool_calls))
    /\ pending' = Head(events).message.tool_calls
    /\ tool_calls_out' = <<>>
    /\ tool_results' = <<>>
    /\ events' = Tail(events)
    /\ pc' = "tools"
    /\ UNCHANGED <<adapter, stream, max_iterations, tool_iterations, tool_calls,
                   stream_tool_calls, provider_calls, turn_start, to_yield, frames,
                   response, final_native, frame_turn,
                   raw, result>>
    /\ UNCHANGED unitVars

\* variant: the tool_calls frame lists the calls of the turn alone
ToolsDoneLlm_turn_only ==
    /\ pc = "tools"
    /\ pending = <<>>
    /\ Native
    /\ stream_tool_calls' = stream_tool_calls \o tool_calls_out
    /\ conversation' = conversation \o tool_results
    /\ frames' = Append(frames, ToolCallsFrame(tool_calls_out))
    /\ frame_turn' = Append(frame_turn, provider_calls)
    /\ events' = <<>>
    /\ pc' = "llm_while"
    /\ UNCHANGED <<adapter, stream, max_iterations, tool_iterations, tool_calls,
                   stream_iterations, provider_calls, requested, turn_start, pending,
                   tool_calls_out, tool_results, to_yield, response, last_finish, final_native,
                   raw, result>>
    /\ UNCHANGED unitVars

\* _execute_pending_tools returns to stream_body_llm, which yields the tool_calls frame and
\* leaves the event loop (chat.py:677-693)
ToolsDoneLlm ==
    /\ pc = "tools"
    /\ pending = <<>>
    /\ Native
    /\ stream_tool_calls' = stream_tool_calls \o tool_calls_out
    /\ conversation' = conversation \o tool_results
    /\ frames' = Append(frames, ToolCallsFrame(stream_tool_calls \o tool_calls_out))
    /\ frame_turn' = Append(frame_turn, provider_calls)
    /\ events' = <<>>
    /\ pc' = "llm_while"
    /\ UNCHANGED <<adapter, stream, max_iterations, tool_iterations, tool_calls,
                   stream_iterations, provider_calls, requested, turn_start, pending,
                   tool_calls_out, tool_results, to_yield, response, last_finish, final_native,
                   raw, result>>
    /\ UNCHANGED unitVars

\* a message event without tool calls (chat.py:694-696)
LlmMessageFinal ==
    /\ pc = "llm_stream"
    /\ events # <<>>
    /\ Head(events).kind = "message"
    /\ Head(events).message.finish_reason # "error"
    /\ Head(events).message.tool_calls = <<>>
    /\ requested' = <<>>
    /\ last_finish' = Head(events).message.finish_reason
    /\ frames' = Append(frames, DoneFrame)
    /\ frame_turn' = Append(frame_turn, provider_calls)
    /\ events' = <<>>
    /\ pc' = "done"
    /\ UNCHANGED <<adapter, stream, max_iterations, conversation, tool_iterations,
                   tool_calls, stream_iterations, stream_tool_calls, provider_calls,
                   turn_start, pending, tool_calls_out, tool_results, to_yield,
                   response, final_native,
                   raw, result>>
    /\ UNCHANGED unitVars

\* the while condition of stream_body_llm fails: the else branch (chat.py:697-698)
LlmWhileElse ==
    /\ pc = "llm_while"
    /\ ~(stream_iterations < max_iterations)
    /\ frames' = Append(frames, DoneFrame)
    /\ frame_turn' = Append(frame_turn, provider_calls)
    /\ pc' = "done"
    /\ UNCHANGED <<adapter, stream, max_iterations, conversation, tool_iterations,
                   tool_calls, stream_iterations, stream_tool_calls, provider_calls,
                   requested, turn_start, events, pending, tool_calls_out, tool_results,
                   to_yield, response, last_finish, final_native,
                   raw, result>>
    /\ UNCHANGED unitVars

Next ==
    \/ CallProviderError
    \/ CallProviderFinal
    \/ CallProviderTools
    \/ ExecuteTool
    \/ ExecuteToolRejected
    \/ ToolsDone
    \/ MaxIterationsReached
    \/ StreamBodyYield
    \/ LlmStreamStart
    \/ LlmContentDelta
    \/ LlmMessageError
    \/ LlmMessageTools
    \/ ToolsDoneLlm
    \/ LlmMessageFinal
    \/ LlmWhileElse

Spec == Init /\ [][Next]_vars

\* the request keeps being served: the handler, and the response generator as long as its
\* consumer reads it, take their next step
FairSpec == Spec /\ WF_vars(Next)

(* The consumer of a native stream disconnects *)

\* stream_body_llm is suspended at one of its yields: after a content frame (chat.py:650),
\* after a tool_calls frame (chat.py:682), after the error or done frame (chat.py:659, 695, 698)
AtYield ==
    /\ Native
    /\ frames # <<>>
    /\ \/ pc = "llm_stream" /\ frames[Len(frames)].type = "content"
                             /\ frame_turn[Len(frame_turn)] = provider_calls
       \/ pc = "llm_while" /\ frames[Len(frames)].type = "tool_calls"
       \/ pc = "done"

\* the generator is closed at its yield: GeneratorExit leaves the async for and the while
\* (no handler in chat.py:638-698) and stream_body_llm ends. The adapter's generator is left
\* suspended; it holds an open provider connection when it stands at a content_delta yield
\* inside its read of the provider stream
ConsumerDisconnect ==
    /\ consumer = "connected"
    /\ AtYield
    /\ consumer' = "disconnected"
    /\ adapter_generator' = IF pc = "done" THEN "none" ELSE "suspended"
    /\ open_connection' = IF pc = "llm_stream" THEN "open" ELSE "none"
    /\ pc' = "closed"
    /\ UNCHANGED <<chatData, chunkVars, buildVars, managerVars, liveVars, searchVars,
                   syncVars, adapterVars, trackerVars, readerVars>>

\* what closing the adapter's generator at a content_delta yield does to its connection:
\* Ollama closes the client in a finally (ollama.py:221-245), llama.cpp leaves its two
\* async with blocks (llama_cpp.py:270-275); the OpenAI and Gemini adapters hold the SDK's
\* stream in a local and have no statement that closes it (openai.py:281-283,
\* gemini.py:389-395), so the connection is closed only if the SDK does it by itself
ConnectionAfterClose(a) ==
    IF a \in {"ollama", "llama_cpp"} THEN {"closed"} ELSE {"closed", "open"}

\* the event loop closes the adapter's generator that the ended stream_body_llm left behind
AdapterGeneratorClose ==
    /\ consumer = "disconnected"
    /\ adapter_generator = "suspended"
    /\ adapter_generator' = "closed"
    /\ open_connection' \in IF open_connection = "open" THEN ConnectionAfterClose(adapter)
                                                       ELSE {open_connection}
    /\ UNCHANGED <<pc, consumer, chatData, chunkVars, buildVars, managerVars, liveVars,
                   searchVars, syncVars, adapterVars, trackerVars, readerVars>>

NextCancel ==
    \/ Next
    \/ ConsumerDisconnect
    \/ AdapterGeneratorClose

SpecCancel == Init /\ [][NextCancel]_vars

----------------------------------------------------------------------------
(* The adapters taken alone: one call of chat_with_tools or chat_with_tools_stream on one *)
(* provider output                                                                        *)

\* an exception that leaves the adapter (no adapter path produces it)
Raised == [content |-> None, tool_calls |-> <<>>, finish_reason |-> "<exception>"]

InitAdapters ==
    /\ adapter \in Adapters
    /\ raw \in Raws(adapter)
    /\ result = ErrorResponse
    /\ stream = FALSE
    /\ max_iterations = 1
    /\ pc = "adapter_call"
    /\ response = NoResponse
    /\ LoopEntry
    /\ UnitsIdle

AdapterCall ==
    /\ pc = "adapter_call"
    /\ result' = chat_with_tools(adapter, raw)
    /\ pc' = "adapter_returned"
    /\ UNCHANGED <<adapter, stream, max_iterations, conversation, tool_iterations,
                   tool_calls, stream_iterations, stream_tool_calls, provider_calls,
                   requested, turn_start, events, pending, tool_calls_out, tool_results,
                   to_yield, frames, response, last_finish, final_native, frame_turn, raw>>
    /\ UNCHANGED unitVars

\* provider streams handed to one adapter call: every stream of OrchStreams read to its
\* end, cut by a transport failure after any number of chunks, or asked of a provider
\* that was never initialized, and a text stream closed by each native finish status
AdapterStreamRaws(a) ==
    OrchStreamRaws(a)
        \cup UNION {{StreamRaw(TRUE, n, c) : n \in 0..Len(c)} : c \in OrchStreams(a)}
        \cup {StreamRaw(FALSE, -1, c) : c \in OrchStreams(a)}
        \cup {StreamRaw(TRUE, -1, <<TextChunk, FinishChunk(f)>>) : f \in NativeFinish(a)}

AdapterStreamCall ==
    /\ pc = "adapter_call"
    /\ HasStream(adapter)
    /\ raw = NoRaw
    /\ \E sr \in AdapterStreamRaws(adapter) :
          /\ stream_input' = sr
          /\ events' = chat_with_tools_stream(adapter, sr)
    /\ pc' = "adapter_streamed"
    /\ UNCHANGED <<adapter, stream, max_iterations, conversation, tool_iterations,
                   tool_calls, stream_iterations, stream_tool_calls, provider_calls,
                   requested, turn_start, pending, tool_calls_out, tool_results,
                   to_yield, frames, response, last_finish, final_native, frame_turn,
                   raw, result>>
    /\ UNCHANGED <<chunkVars, buildVars, managerVars, liveVars, searchVars, syncVars, trackerVars, readerVars, cancelVars>>

NextAdapters ==
    \/ AdapterCall
    \/ AdapterStreamCall

SpecAdapters == InitAdapters /\ [][NextAdapters]_vars

----------------------------------------------------------------------------
(* Units taken alone *)

\* no request is being served
ChatIdle ==
    /\ adapter = "openai"
    /\ stream = FALSE
    /\ max_iterations = 1
    /\ response = NoResponse
    /\ LoopEntry
    /\ raw = NoRaw
    /\ result = ErrorResponse

(* _chunk_content as stream_body uses it (chat.py:755-762): one final answer is chunked *)
(* with the default chunk_size and each fragment is written as a content frame          *)

MaxPieces == 3       \* most pieces a final answer is put together from

Word(n) == [i \in 1..n |-> "a"]

\* pieces of a final answer: a space, a short word, and words that bring the running
\* count of _chunk_content near the threshold
Pieces ==
    {<<" ">>, Word(1), Word(DefaultChunkSize \div 2 - 1), Word(DefaultChunkSize - 2)}

RECURSIVE Concat(_)
Concat(q) == IF q = <<>> THEN <<>> ELSE Head(q) \o Concat(Tail(q))

FinalAnswers == {Concat(q) : q \in SeqsUpTo(Pieces, MaxPieces)}

InitChunk ==
    /\ pc = "chunk_call"
    /\ answer \in FinalAnswers
    /\ parts = <<>>
    /\ delivered = <<>>
    /\ ChatIdle
    /\ BuildIdle
    /\ ManagerIdle
    /\ LiveIdle
    /\ SearchIdle
    /\ SyncIdle
    /\ AdapterIdle
    /\ TrackerIdle
    /\ ReaderIdle
    /\ CancelIdle

\* for part in _chunk_content(answer): the generator is created
ChunkCall ==
    /\ pc = "chunk_call"
    /\ parts' = _chunk_content(answer, DefaultChunkSize)
    /\ pc' = "chunk_loop"
    /\ UNCHANGED <<answer, delivered, chatData, buildVars, managerVars, liveVars, searchVars, syncVars, adapterVars, trackerVars, readerVars, cancelVars>>

\* one pass of the loop: the next fragment is written as a content frame
ChunkYield ==
    /\ pc = "chunk_loop"
    /\ parts # <<>>
    /\ delivered' = delivered \o Head(parts)
    /\ parts' = Tail(parts)
    /\ UNCHANGED <<pc, answer, chatData, buildVars, managerVars, liveVars, searchVars, syncVars, adapterVars, trackerVars, readerVars, cancelVars>>

\* the generator is exhausted: the done frame is written
ChunkDone ==
    /\ pc = "chunk_loop"
    /\ parts = <<>>
    /\ pc' = "chunk_done"
    /\ UNCHANGED <<answer, parts, delivered, chatData, buildVars, managerVars, liveVars, searchVars, syncVars, adapterVars, trackerVars, readerVars, cancelVars>>

NextChunk ==
    \/ ChunkCall
    \/ ChunkYield
    \/ ChunkDone

SpecChunk == InitChunk /\ [][NextChunk]_vars

(* Initialization of the conversation (chat.py:560-620) *)

MaxMessages == 3     \* most messages in body.messages

\* one ChatMessage of the request; the i-th message of a request has its own text
ChatMessage(role, i) == [role |-> role, content |-> <<"m", ToString(i)>>]

BodyMessages ==
    UNION {[1..n -> {"user", "assistant", "tool"}] : n \in 1..MaxMessages}

\* what body.include_live_image names: nothing, a camera whose frame can be read, a camera
\* whose frame is None, a camera without camera state, a camera the caller may not see, a
\* camera that is not configured
LiveCameras == {"none", "ok", "no_frame", "no_state", "not_allowed", "not_configured"}

\* one message of the conversation being initialized; image_url is "" when content is the
\* caller's text alone, else content is the two-block list [text, image_url]
MsgDict(role, content, image_url) == [role |-> role, content |-> content, image_url |-> image_url]

\* variant: the camera is not tested against allowed_cameras and the configured cameras
_get_live_frame_image_url_unchecked(camera) ==
    IF camera = "no_state" THEN [url |-> "", read |-> FALSE]
    ELSE IF camera = "no_frame" THEN [url |-> "", read |-> TRUE]
    ELSE [url |-> "data:image/jpeg;base64,...", read |-> TRUE]

\* _get_live_frame_image_url: the data URL ("" for None) and whether the frame was read
_get_live_frame_image_url(camera) ==
    IF camera \in {"not_allowed", "not_configured"} THEN [url |-> "", read |-> FALSE]
    ELSE IF camera = "no_state" THEN [url |-> "", read |-> FALSE]
    ELSE IF camera = "no_frame" THEN [url |-> "", read |-> TRUE]
    ELSE [url |-> "data:image/jpeg;base64,...", read |-> TRUE]

InitBuild ==
    /\ pc = "build_start"
    /\ \E roles \in BodyMessages :
          body_messages = [i \in 1..Len(roles) |-> ChatMessage(roles[i], i)]
    /\ live_camera \in LiveCameras
    /\ first_user_message_seen = FALSE
    /\ init_conversation = <<>>
    /\ frame_reads = 0
    /\ ChatIdle
    /\ ChunkIdle
    /\ ManagerIdle
    /\ LiveIdle
    /\ SearchIdle
    /\ SyncIdle
    /\ AdapterIdle
    /\ TrackerIdle
    /\ ReaderIdle
    /\ CancelIdle

\* the system message is appended (chat.py:560-592)
BuildSystemMessage ==
    /\ pc = "build_start"
    /\ init_conversation' = <<MsgDict("system",
                                      IF live_camera # "none"
                                      THEN Opaque("system_prompt + live_image_note")
                                      ELSE Opaque("system_prompt"), "")>>
    /\ pc' = "build_loop"
    /\ UNCHANGED <<body_messages, live_camera, first_user_message_seen, frame_reads,
                   chatData, chunkVars, managerVars, liveVars, searchVars, syncVars, adapterVars, trackerVars, readerVars, cancelVars>>

\* variant: first_user_message_seen is never set
BuildMessage_every_user ==
    /\ pc = "build_loop"
    /\ Len(init_conversation) <= Len(body_messages)
    /\ LET msg == body_messages[Len(init_conversation)]
           attach == msg.role = "user" /\ live_camera # "none"
           got == _get_live_frame_image_url(live_camera)
       IN  /\ frame_reads' = IF attach /\ got.read THEN frame_reads + 1 ELSE frame_reads
           /\ init_conversation' = Append(init_conversation,
                  MsgDict(msg.role, msg.content, IF attach THEN got.url ELSE ""))
    /\ UNCHANGED <<pc, body_messages, live_camera, first_user_message_seen, chatData, chunkVars, managerVars, liveVars, searchVars, syncVars, adapterVars, trackerVars, readerVars, cancelVars>>

\* one pass of "for msg in body.messages" (chat.py:594-618)
BuildMessage ==
    /\ pc = "build_loop"
    /\ Len(init_conversation) <= Len(body_messages)
    /\ LET msg == body_messages[Len(init_conversation)]
           attach == msg.role = "user" /\ ~first_user_message_seen /\ live_camera # "none"
           got == _get_live_frame_image_url(live_camera)
       IN  /\ first_user_message_seen' = (first_user_message_seen \/ attach)
           /\ frame_reads' = IF attach /\ got.read THEN frame_reads + 1 ELSE frame_reads
           /\ init_conversation' = Append(init_conversation,
                  MsgDict(msg.role, msg.content, IF attach THEN got.url ELSE ""))
    /\ UNCHANGED <<pc, body_messages, live_camera, chatData, chunkVars, managerVars, liveVars, searchVars, syncVars, adapterVars, trackerVars, readerVars, cancelVars>>

\* the loop is exhausted: the agent loop starts on this conversation (chat.py:620-624)
BuildDone ==
    /\ pc = "build_loop"
    /\ Len(init_conversation) > Len(body_messages)
    /\ pc' = "build_done"
    /\ UNCHANGED <<chatData, unitVars>>

NextBuild ==
    \/ BuildSystemMessage
    \/ BuildMessage
    \/ BuildDone

SpecBuild == InitBuild /\ [][NextBuild]_vars

(* GenAIClientManager._update_config (manager.py:30-74) *)

MaxEntries == 2      \* most entries in config.genai

\* provider of an entry: a registered class whose constructor returns, a registered class
\* whose constructor raises, a name PROVIDERS does not know, no provider
EntryProviders == {"constructs", "raises", "unknown", ""}

EntryRoles == {<<>>, <<"tools">>, <<"vision">>, <<"embeddings">>, <<"tools", "vision">>}

GenAIEntries == {[provider |-> p, roles |-> r] : p \in EntryProviders, r \in EntryRoles}

\* "for role in genai_cfg.roles": the handles after the roles of one entry are bound to client
RECURSIVE BindRoles(_, _, _)
BindRoles(clients, roles, client) ==
    IF roles = <<>> THEN clients
    ELSE BindRoles([clients EXCEPT ![Head(roles)] = client], Tail(roles), client)

\* variant: the handler of the constructor's exception leaves client = None and the roles
\* of the entry are bound to it
UpdateEntry_unbinds(clients, entry, i) ==
    IF entry.provider = "" THEN clients
    ELSE IF entry.provider = "unknown" THEN clients
    ELSE IF entry.provider = "raises" THEN BindRoles(clients, entry.roles, 0)
    ELSE BindRoles(clients, entry.roles, i)

\* variant: a role that is bound already keeps its client
UpdateEntry_first_wins(clients, entry, i) ==
    IF entry.provider # "constructs" THEN clients
    ELSE [r \in DOMAIN clients |->
            IF clients[r] = 0 /\ \E k \in 1..Len(entry.roles) : entry.roles[k] = r
            THEN i ELSE clients[r]]

\* one pass of "for _name, genai_cfg in self._config.genai.items()" on the i-th entry
\* (manager.py:48-74)
UpdateEntry(clients, entry, i) ==
    IF entry.provider = "" THEN clients
    ELSE IF entry.provider = "unknown" THEN clients
    ELSE IF entry.provider = "raises" THEN clients
    ELSE BindRoles(clients, entry.roles, i)

InitManager ==
    /\ pc = "update_config"
    /\ genai_config \in SeqsUpTo(GenAIEntries, MaxEntries)
    /\ role_clients \in {NoClients, [tools |-> -1, vision |-> -1, embeddings |-> -1]}
    /\ entries_done = 0
    /\ init_provider \in [1..Len(genai_config) -> {"provider", "None"}]
    /\ \A i \in 1..Len(genai_config) :
          genai_config[i].provider # "constructs" => init_provider[i] = "None"
    /\ ChatIdle
    /\ ChunkIdle
    /\ BuildIdle
    /\ LiveIdle
    /\ SearchIdle
    /\ SyncIdle
    /\ AdapterIdle
    /\ TrackerIdle
    /\ ReaderIdle
    /\ CancelIdle

\* the handles are reset; an empty configuration returns at once (manager.py:39-46)
UpdateConfigReset ==
    /\ pc = "update_config"
    /\ role_clients' = NoClients
    /\ pc' = IF genai_config = <<>> THEN "update_config_done" ELSE "update_config_loop"
    /\ UNCHANGED <<genai_config, entries_done, init_provider, chatData, chunkVars, buildVars, liveVars, searchVars, syncVars, adapterVars, trackerVars, readerVars, cancelVars>>

UpdateConfigEntry ==
    /\ pc = "update_config_loop"
    /\ entries_done < Len(genai_config)
    /\ role_clients' = UpdateEntry(role_clients, genai_config[entries_done + 1], entries_done + 1)
    /\ entries_done' = entries_done + 1
    /\ UNCHANGED <<pc, genai_config, init_provider, chatData, chunkVars, buildVars, liveVars, searchVars, syncVars, adapterVars, trackerVars, readerVars, cancelVars>>

\* the loop is exhausted: _update_config returns
UpdateConfigReturn ==
    /\ pc = "update_config_loop"
    /\ entries_done = Len(genai_config)
    /\ pc' = "update_config_done"
    /\ UNCHANGED <<chatData, unitVars>>

NextManager ==
    \/ UpdateConfigReset
    \/ UpdateConfigEntry
    \/ UpdateConfigReturn

SpecManager == InitManager /\ [][NextManager]_vars

(* A rebuild of the handles while requests are served *)

\* _update_config is called again on a manager whose tools handle is bound
InitRebuild ==
    /\ InitManager
    /\ role_clients.tools = -1

\* genai_client = request.app.genai_manager.tool_client (chat.py:531), read by a request
\* of another thread at any moment of the rebuild
ReadToolClient ==
    /\ pc \in {"update_config", "update_config_loop", "update_config_done"}
    /\ tool_client_reads' = tool_client_reads \cup {role_clients.tools}
    /\ UNCHANGED <<pc, chatData, chunkVars, buildVars, managerVars, liveVars, searchVars,
                   syncVars, adapterVars, trackerVars, cancelVars>>

NextRebuild ==
    \/ NextManager
    \/ ReadToolClient

SpecRebuild == InitRebuild /\ [][NextRebuild]_vars

(* _execute_get_live_context taken alone (chat.py:285-334) *)

MaxObjects == 2      \* most objects the tracker holds for the camera

ObjIds == 1..MaxObjects

\* frame times of the camera: the frame before the current one and the current one
FrameTimes == {1, 2}

\* what the camera argument names: a camera outside allowed_cameras, an allowed camera that
\* is not in frigate_config.cameras, a configured camera without camera state, a camera
\* with state
ContextCameras == {"not_allowed", "not_configured", "no_state", "ok"}

\* the call inside the try body that raises, if any
ContextFaults == {"none", "camera_states", "copy", "to_dict"}

\* dict orders of at most MaxObjects distinct ids
ObjectMaps == {s \in SeqsUpTo(ObjIds, MaxObjects) :
                  \A i, j \in 1..Len(s) : i # j => s[i] # s[j]}

\* a returned {"error": ...}
LiveError(text) == [error |-> text, camera |-> "", timestamp |-> 0, detections |-> <<>>]

AccessDenied == "Camera 'c' not found or access denied"

AllowedCamera_any(camera) == TRUE

\* camera in allowed_cameras (chat.py:290)
AllowedCamera(camera) == camera # "not_allowed"

IsCurrent_any(obj_dict_frame_time, snapshot_time) == TRUE

\* obj_dict.get("frame_time") == frame_time (chat.py:316)
IsCurrent(obj_dict_frame_time, snapshot_time) == obj_dict_frame_time = snapshot_time

InitLive ==
    /\ pc = "glc_call"
    /\ glc_camera \in ContextCameras
    /\ glc_fault \in ContextFaults
    /\ state_tracked_objects \in ObjectMaps
    /\ obj_frame_time \in [ObjIds -> FrameTimes]
    /\ state_current_frame_time \in FrameTimes
    /\ current_frame_lock = "free"
    /\ tracked_objects = <<>>
    /\ frame_time = 0
    /\ glc_remaining = <<>>
    /\ tracked_objects_dict = <<>>
    /\ glc_result = NoResult
    /\ glc_history = [state_reads |-> 0, lock_acquisitions |-> 0]
    /\ ChatIdle
    /\ ChunkIdle
    /\ BuildIdle
    /\ ManagerIdle
    /\ SearchIdle
    /\ SyncIdle
    /\ AdapterIdle
    /\ TrackerIdle
    /\ ReaderIdle
    /\ CancelIdle

\* the two checks before the try (chat.py:290-298)
LiveAccessCheck ==
    /\ pc = "glc_call"
    /\ IF ~AllowedCamera(glc_camera)
       THEN /\ glc_result' = LiveError(AccessDenied)
            /\ pc' = "glc_done"
       ELSE IF glc_camera = "not_configured"
       THEN /\ glc_result' = LiveError("Camera 'c' not found")
            /\ pc' = "glc_done"
       ELSE /\ pc' = "glc_try"
            /\ UNCHANGED glc_result
    /\ UNCHANGED <<glc_camera, glc_fault, state_tracked_objects, obj_frame_time,
                   state_current_frame_time, current_frame_lock, tracked_objects, frame_time,
                   glc_remaining, tracked_objects_dict, glc_history,
                   chatData, chunkVars, buildVars, managerVars, searchVars, syncVars, adapterVars, trackerVars, readerVars, cancelVars>>

\* frame_processor.camera_states.get(camera) and the None check (chat.py:301-307)
LiveGetState ==
    /\ pc = "glc_try"
    /\ glc_history' = [glc_history EXCEPT !.state_reads = @ + 1]
    /\ IF glc_fault = "camera_states"
       THEN /\ glc_result' = LiveError("Error getting live context")
            /\ pc' = "glc_done"
       ELSE IF glc_camera = "no_state"
       THEN /\ glc_result' = LiveError("Camera 'c' state not available")
            /\ pc' = "glc_done"
       ELSE /\ pc' = "glc_lock"
            /\ UNCHANGED glc_result
    /\ UNCHANGED <<glc_camera, glc_fault, state_tracked_objects, obj_frame_time,
                   state_current_frame_time, current_frame_lock, tracked_objects, frame_time,
                   glc_remaining, tracked_objects_dict,
                   chatData, chunkVars, buildVars, managerVars, searchVars, syncVars, adapterVars, trackerVars, readerVars, cancelVars>>

\* with camera_state.current_frame_lock: entered (chat.py:310)
LiveAcquire ==
    /\ pc = "glc_lock"
    /\ current_frame_lock = "free"
    /\ current_frame_lock' = "get_live_context"
    /\ glc_history' = [glc_history EXCEPT !.lock_acquisitions = @ + 1]
    /\ pc' = "glc_copy"
    /\ UNCHANGED <<glc_camera, glc_fault, state_tracked_objects, obj_frame_time,
                   state_current_frame_time, tracked_objects, frame_time,
                   glc_remaining, tracked_objects_dict, glc_result,
                   chatData, chunkVars, buildVars, managerVars, searchVars, syncVars, adapterVars, trackerVars, readerVars, cancelVars>>

\* variant: the lock is taken with acquire() and no finally, an exception keeps it held
LiveCopy_keeps_lock ==
    /\ pc = "glc_copy"
    /\ IF glc_fault = "copy"
       THEN /\ glc_result' = LiveError("Error getting live context")
            /\ pc' = "glc_done"
            /\ UNCHANGED <<tracked_objects, current_frame_lock>>
       ELSE /\ tracked_objects' = state_tracked_objects
            /\ pc' = "glc_time"
            /\ UNCHANGED <<current_frame_lock, glc_result>>
    /\ UNCHANGED <<glc_camera, glc_fault, state_tracked_objects, obj_frame_time,
                   state_current_frame_time, frame_time,
                   glc_remaining, tracked_objects_dict, glc_history,
                   chatData, chunkVars, buildVars, managerVars, searchVars, syncVars, adapterVars, trackerVars, readerVars, cancelVars>>

\* tracked_objects = camera_state.tracked_objects.copy() (chat.py:311); an exception leaves
\* the with block, which releases the lock, and reaches the handler (chat.py:330-334)
LiveCopy ==
    /\ pc = "glc_copy"
    /\ IF glc_fault = "copy"
       THEN /\ current_frame_lock' = "free"
            /\ glc_result' = LiveError("Error getting live context")
            /\ pc' = "glc_done"
            /\ UNCHANGED tracked_objects
       ELSE /\ tracked_objects' = state_tracked_objects
            /\ pc' = "glc_time"
            /\ UNCHANGED <<current_frame_lock, glc_result>>
    /\ UNCHANGED <<glc_camera, glc_fault, state_tracked_objects, obj_frame_time,
                   state_current_frame_time, frame_time,
                   glc_remaining, tracked_objects_dict, glc_history,
                   chatData, chunkVars, buildVars, managerVars, searchVars, syncVars, adapterVars, trackerVars, readerVars, cancelVars>>

\* frame_time = camera_state.current_frame_time, the with block ends and the for loop
\* starts on the copy (chat.py:312-314)
LiveReadTime ==
    /\ pc = "glc_time"
    /\ frame_time' = state_current_frame_time
    /\ current_frame_lock' = "free"
    /\ glc_remaining' = tracked_objects
    /\ snapshot_frame_times' = obj_frame_time
    /\ pc' = "glc_loop"
    /\ UNCHANGED <<glc_camera, glc_fault, state_tracked_objects, obj_frame_time,
                   state_current_frame_time, tracked_objects,
                   tracked_objects_dict, glc_result, glc_history,
                   chatData, chunkVars, buildVars, managerVars, searchVars, syncVars, adapterVars, tracker_frames, readerVars, cancelVars>>

\* one pass of the for loop (chat.py:314-322)
LiveFormat ==
    /\ pc = "glc_loop"
    /\ glc_remaining # <<>>
    /\ LET obj_id == Head(glc_remaining)
       IN  IF glc_fault = "to_dict"
           THEN /\ glc_result' = LiveError("Error getting live context")
                /\ pc' = "glc_done"
                /\ UNCHANGED <<glc_remaining, tracked_objects_dict>>
           ELSE /\ tracked_objects_dict' =
                      IF IsCurrent(obj_frame_time[obj_id], frame_time)
                      THEN Append(tracked_objects_dict, obj_id)
                      ELSE tracked_objects_dict
                /\ glc_remaining' = Tail(glc_remaining)
                /\ UNCHANGED <<pc, glc_result>>
    /\ UNCHANGED <<glc_camera, glc_fault, state_tracked_objects, obj_frame_time,
                   state_current_frame_time, current_frame_lock, tracked_objects, frame_time,
                   glc_history, chatData, chunkVars, buildVars, managerVars, searchVars, syncVars, adapterVars, trackerVars, readerVars, cancelVars>>

\* the return after the loop (chat.py:324-328)
LiveReturn ==
    /\ pc = "glc_loop"
    /\ glc_remaining = <<>>
    /\ glc_result' = [error |-> "", camera |-> "c", timestamp |-> frame_time,
                      detections |-> tracked_objects_dict]
    /\ pc' = "glc_done"
    /\ UNCHANGED <<glc_camera, glc_fault, state_tracked_objects, obj_frame_time,
                   state_current_frame_time, current_frame_lock, tracked_objects, frame_time,
                   glc_remaining, tracked_objects_dict, glc_history,
                   chatData, chunkVars, buildVars, managerVars, searchVars, syncVars, adapterVars, trackerVars, readerVars, cancelVars>>

NextLive ==
    \/ LiveAccessCheck
    \/ LiveGetState
    \/ LiveAcquire
    \/ LiveCopy
    \/ LiveReadTime
    \/ LiveFormat
    \/ LiveReturn

SpecLive == InitLive /\ [][NextLive]_vars

(* The tracker thread of the camera, running beside get_live_context *)

MaxTrackerFrames == 1    \* most frames the tracker processes during one call

\* the times of the frames the tracker processes during the call, after those of FrameTimes
TrackerTimes == {3}

\* the tracker processes one frame while it owns current_frame_lock: it rebinds the map of
\* tracked objects, updates the objects seen in the frame in place (their frame_time becomes
\* the frame's time) and sets current_frame_time
TrackerUpdate ==
    /\ pc \in {"glc_call", "glc_try", "glc_lock", "glc_loop"}
    /\ current_frame_lock = "free"
    /\ tracker_frames < MaxTrackerFrames
    /\ \E t \in TrackerTimes, m \in ObjectMaps :
       \E seen \in SUBSET {m[i] : i \in 1..Len(m)} :
          /\ t > state_current_frame_time
          /\ state_tracked_objects' = m
          /\ obj_frame_time' = [o \in ObjIds |-> IF o \in seen THEN t ELSE obj_frame_time[o]]
          /\ state_current_frame_time' = t
    /\ tracker_frames' = tracker_frames + 1
    /\ UNCHANGED <<pc, glc_camera, glc_fault, current_frame_lock, tracked_objects, frame_time,
                   glc_remaining, tracked_objects_dict, glc_result, glc_history,
                   snapshot_frame_times,
                   chatData, chunkVars, buildVars, managerVars, searchVars, syncVars, adapterVars, readerVars, cancelVars>>

NextLiveTracker ==
    \/ NextLive
    \/ TrackerUpdate

SpecLiveTracker == InitLive /\ [][NextLiveTracker]_vars

(* _execute_search_objects, its after and before arguments (chat.py:180-230) *)

PyInt(s) == [t |-> "int", v |-> s]
PyFloat(s) == [t |-> "float", v |-> s]

\* the key is not in arguments
Absent == [t |-> "absent", v |-> ""]

\* values the model can give for after and for before
BoundValues ==
    {Absent, PyNone,
     PyStr("2024-01-01T00:00:00Z"), PyStr("2024-01-02T23:59:59"),
     PyStr("not-a-date"), PyStr("2024-01-01"), PyStr(""),
     PyInt("5"), PyInt("0"), PyList("[1]")}

\* arguments.get(key)
ArgumentsGet(val) == IF val = Absent THEN PyNone ELSE val

\* bool(value) of a value of BoundValues
BoundTruthy(val) == val \notin {PyNone, PyStr(""), PyInt("0")}

\* s.replace("Z", "").strip()[:19] on the texts of BoundValues
WallTime(s) == IF s = "2024-01-01T00:00:00Z" THEN "2024-01-01T00:00:00" ELSE s

\* datetime.strptime(s, "%Y-%m-%dT%H:%M:%S") accepts s
Strptime(s) == s \in {"2024-01-01T00:00:00", "2024-01-02T23:59:59"}

\* _parse_as_local_timestamp(s): the timestamp of the wall time, or the exception raised
_parse_as_local_timestamp(s) ==
    IF s.t # "str" THEN [ok |-> FALSE, exc |-> "AttributeError", val |-> PyNone]
    ELSE IF Strptime(WallTime(s.v))
         THEN [ok |-> TRUE, exc |-> "", val |-> PyFloat(WallTime(s.v))]
         ELSE [ok |-> FALSE, exc |-> "ValueError", val |-> PyNone]

\* "if after: try: after = _parse_as_local_timestamp(after) except (ValueError,
\* AttributeError, TypeError): logger.warning(...); after = None" (chat.py:199-211)
ParseBound(val) ==
    IF ~BoundTruthy(val) THEN [val |-> val, warned |-> FALSE]
    ELSE IF _parse_as_local_timestamp(val).ok
         THEN [val |-> _parse_as_local_timestamp(val).val, warned |-> FALSE]
         ELSE [val |-> PyNone, warned |-> TRUE]

InitSearch ==
    /\ pc = "search_call"
    /\ search_arguments \in [after : BoundValues, before : BoundValues]
    /\ after = PyNone
    /\ before = PyNone
    /\ query_params = [after |-> PyNone, before |-> PyNone]
    /\ search_warnings = {}
    /\ ChatIdle
    /\ ChunkIdle
    /\ BuildIdle
    /\ ManagerIdle
    /\ LiveIdle
    /\ SyncIdle
    /\ AdapterIdle
    /\ TrackerIdle
    /\ ReaderIdle
    /\ CancelIdle

\* after = arguments.get("after"); before = arguments.get("before") (chat.py:191-192)
SearchGetArguments ==
    /\ pc = "search_call"
    /\ after' = ArgumentsGet(search_arguments.after)
    /\ before' = ArgumentsGet(search_arguments.before)
    /\ pc' = "search_after"
    /\ UNCHANGED <<search_arguments, query_params, search_warnings,
                   chatData, chunkVars, buildVars, managerVars, liveVars, syncVars, adapterVars, trackerVars, readerVars, cancelVars>>

\* the "if after:" block (chat.py:199-204)
SearchParseAfter ==
    /\ pc = "search_after"
    /\ after' = ParseBound(after).val
    /\ search_warnings' = IF ParseBound(after).warned
                          THEN search_warnings \cup {"after"} ELSE search_warnings
    /\ pc' = "search_before"
    /\ UNCHANGED <<search_arguments, before, query_params,
                   chatData, chunkVars, buildVars, managerVars, liveVars, syncVars, adapterVars, trackerVars, readerVars, cancelVars>>

\* the "if before:" block (chat.py:206-211)
SearchParseBefore ==
    /\ pc = "search_before"
    /\ before' = ParseBound(before).val
    /\ search_warnings' = IF ParseBound(before).warned
                          THEN search_warnings \cup {"before"} ELSE search_warnings
    /\ pc' = "search_query"
    /\ UNCHANGED <<search_arguments, after, query_params,
                   chatData, chunkVars, buildVars, managerVars, liveVars, syncVars, adapterVars, trackerVars, readerVars, cancelVars>>

\* EventsQueryParams(..., after=after, before=before, ...) (chat.py:221-230)
SearchBuildQuery ==
    /\ pc = "search_query"
    /\ query_params' = [after |-> after, before |-> before]
    /\ pc' = "search_done"
    /\ UNCHANGED <<search_arguments, after, before, search_warnings,
                   chatData, chunkVars, buildVars, managerVars, liveVars, syncVars, adapterVars, trackerVars, readerVars, cancelVars>>

NextSearch ==
    \/ SearchGetArguments
    \/ SearchParseAfter
    \/ SearchParseBefore
    \/ SearchBuildQuery

SpecSearch == InitSearch /\ [][NextSearch]_vars

(* start_media_sync_job and MediaSyncRunner (jobs/media_sync.py, jobs/manager.py) *)

MaxSyncCalls == 2    \* most calls of start_media_sync_job

\* Job(): a fresh job (job.py:11-17)
NewJob == [status |-> "queued", start_time |-> "None", end_time |-> "None",
           results |-> "None", error_message |-> "None"]

\* job is not None and job.status in ("queued", "running") (manager.py:70)
JobActive(job) == job # 0 /\ jobs[job].status \in {"queued", "running"}

InitSync ==
    /\ pc = "media_sync"
    /\ sync_pc = [c \in SyncCallers |-> "idle"]
    /\ sync_seen = [c \in SyncCallers |-> 0]
    /\ sync_job = [c \in SyncCallers |-> 0]
    /\ sync_returned = [c \in SyncCallers |-> -1]
    /\ sync_calls = 0
    /\ jobs = <<>>
    /\ current_job = 0
    /\ completed_jobs = {}
    /\ runner_pc = <<>>
    /\ broadcast_failures = {}
    /\ ChatIdle
    /\ ChunkIdle
    /\ BuildIdle
    /\ ManagerIdle
    /\ LiveIdle
    /\ SearchIdle
    /\ AdapterIdle
    /\ TrackerIdle
    /\ ReaderIdle
    /\ CancelIdle

\* a thread calls start_media_sync_job (media_sync.py:94)
SyncCall(c) ==
    /\ sync_pc[c] = "idle"
    /\ sync_calls < MaxSyncCalls
    /\ sync_calls' = sync_calls + 1
    /\ sync_pc' = [sync_pc EXCEPT ![c] = "get_current"]
    /\ sync_seen' = [sync_seen EXCEPT ![c] = 0]
    /\ sync_job' = [sync_job EXCEPT ![c] = 0]
    /\ sync_returned' = [sync_returned EXCEPT ![c] = -1]
    /\ UNCHANGED <<pc, broadcast_failures, jobs, current_job, completed_jobs, runner_pc,
                   chatData, chunkVars, buildVars, managerVars, liveVars, searchVars, adapterVars, trackerVars, readerVars, cancelVars>>

\* job_is_running: job = get_current_job(job_type), the read under the lock
\* (manager.py:48-52, 69)
SyncGetCurrent(c) ==
    /\ sync_pc[c] = "get_current"
    /\ sync_seen' = [sync_seen EXCEPT ![c] = current_job]
    /\ sync_pc' = [sync_pc EXCEPT ![c] = "status"]
    /\ UNCHANGED <<pc, broadcast_failures, sync_job, sync_returned, sync_calls, jobs, current_job,
                   completed_jobs, runner_pc,
                   chatData, chunkVars, buildVars, managerVars, liveVars, searchVars, adapterVars, trackerVars, readerVars, cancelVars>>

\* job_is_running: the status test on the job read, after the lock is released, and the
\* branch of start_media_sync_job on it (manager.py:70, media_sync.py:104)
SyncTestStatus(c) ==
    /\ sync_pc[c] = "status"
    /\ sync_pc' = [sync_pc EXCEPT ![c] = IF JobActive(sync_seen[c]) THEN "reject" ELSE "create"]
    /\ UNCHANGED <<pc, broadcast_failures, sync_seen, sync_job, sync_returned, sync_calls, jobs, current_job,
                   completed_jobs, runner_pc,
                   chatData, chunkVars, buildVars, managerVars, liveVars, searchVars, adapterVars, trackerVars, readerVars, cancelVars>>

\* the rejection: the warning and "return None" (media_sync.py:105-109)
SyncReject(c) ==
    /\ sync_pc[c] = "reject"
    /\ sync_returned' = [sync_returned EXCEPT ![c] = 0]
    /\ sync_pc' = [sync_pc EXCEPT ![c] = "idle"]
    /\ UNCHANGED <<pc, broadcast_failures, sync_seen, sync_job, sync_calls, jobs, current_job,
                   completed_jobs, runner_pc,
                   chatData, chunkVars, buildVars, managerVars, liveVars, searchVars, adapterVars, trackerVars, readerVars, cancelVars>>

\* job = MediaSyncJob(...) (media_sync.py:112-116)
SyncCreate(c) ==
    /\ sync_pc[c] = "create"
    /\ jobs' = Append(jobs, NewJob)
    /\ runner_pc' = Append(runner_pc, "none")
    /\ sync_job' = [sync_job EXCEPT ![c] = Len(jobs) + 1]
    /\ sync_pc' = [sync_pc EXCEPT ![c] = "set_current"]
    /\ UNCHANGED <<pc, broadcast_failures, sync_seen, sync_returned, sync_calls, current_job, completed_jobs,
                   chatData, chunkVars, buildVars, managerVars, liveVars, searchVars, adapterVars, trackerVars, readerVars, cancelVars>>

\* set_current_job(job), the block under the lock (manager.py:23-35)
set_current_job(c) ==
    /\ sync_pc[c] = "set_current"
    /\ completed_jobs' =
          IF current_job # 0 /\ jobs[current_job].status \in {"success", "failed", "cancelled"}
          THEN completed_jobs \cup {current_job}
          ELSE completed_jobs
    /\ current_job' = sync_job[c]
    /\ sync_pc' = [sync_pc EXCEPT ![c] = "start"]
    /\ UNCHANGED <<pc, broadcast_failures, sync_seen, sync_job, sync_returned, sync_calls, jobs, runner_pc,
                   chatData, chunkVars, buildVars, managerVars, liveVars, searchVars, adapterVars, trackerVars, readerVars, cancelVars>>

\* runner = MediaSyncRunner(job); runner.start(); return job.id (media_sync.py:122-125)
SyncStartRunner(c) ==
    /\ sync_pc[c] = "start"
    /\ runner_pc' = [runner_pc EXCEPT ![sync_job[c]] = "run"]
    /\ sync_returned' = [sync_returned EXCEPT ![c] = sync_job[c]]
    /\ sync_pc' = [sync_pc EXCEPT ![c] = "idle"]
    /\ UNCHANGED <<pc, broadcast_failures, sync_seen, sync_job, sync_calls, jobs, current_job, completed_jobs,
                   chatData, chunkVars, buildVars, managerVars, liveVars, searchVars, adapterVars, trackerVars, readerVars, cancelVars>>

\* MediaSyncRunner.run: self.job.status = running (media_sync.py:46)
RunnerSetRunning(j) ==
    /\ runner_pc[j] = "run"
    /\ jobs' = [jobs EXCEPT ![j].status = "running"]
    /\ runner_pc' = [runner_pc EXCEPT ![j] = "start_time"]
    /\ UNCHANGED <<pc, broadcast_failures, sync_pc, sync_seen, sync_job, sync_returned, sync_calls, current_job,
                   completed_jobs,
                   chatData, chunkVars, buildVars, managerVars, liveVars, searchVars, adapterVars, trackerVars, readerVars, cancelVars>>

\* self.job.start_time = now (media_sync.py:47)
RunnerSetStartTime(j) ==
    /\ runner_pc[j] = "start_time"
    /\ jobs' = [jobs EXCEPT ![j].start_time = "set"]
    /\ runner_pc' = [runner_pc EXCEPT ![j] = "broadcast_running"]
    /\ UNCHANGED <<pc, broadcast_failures, sync_pc, sync_seen, sync_job, sync_returned, sync_calls, current_job,
                   completed_jobs,
                   chatData, chunkVars, buildVars, managerVars, liveVars, searchVars, adapterVars, trackerVars, readerVars, cancelVars>>

\* sync_all_media(...) and results.to_dict(): the results are stored, or one of the two
\* raises and the handler is entered (media_sync.py:58-65, 72)
RunnerSync(j) ==
    /\ runner_pc[j] = "sync"
    /\ \/ /\ jobs' = [jobs EXCEPT ![j].results = "set"]
          /\ runner_pc' = [runner_pc EXCEPT ![j] = "success"]
       \/ /\ jobs' = jobs
          /\ runner_pc' = [runner_pc EXCEPT ![j] = "failed"]
    /\ UNCHANGED <<pc, broadcast_failures, sync_pc, sync_seen, sync_job, sync_returned, sync_calls, current_job,
                   completed_jobs,
                   chatData, chunkVars, buildVars, managerVars, liveVars, searchVars, adapterVars, trackerVars, readerVars, cancelVars>>

\* self.job.status = success (media_sync.py:66)
RunnerSetSuccess(j) ==
    /\ runner_pc[j] = "success"
    /\ jobs' = [jobs EXCEPT ![j].status = "success"]
    /\ runner_pc' = [runner_pc EXCEPT ![j] = "end_time"]
    /\ UNCHANGED <<pc, broadcast_failures, sync_pc, sync_seen, sync_job, sync_returned, sync_calls, current_job,
                   completed_jobs,
                   chatData, chunkVars, buildVars, managerVars, liveVars, searchVars, adapterVars, trackerVars, readerVars, cancelVars>>

\* the handler: self.job.status = failed; self.job.error_message = str(e)
\* (media_sync.py:74-75)
RunnerSetFailed(j) ==
    /\ runner_pc[j] = "failed"
    /\ jobs' = [jobs EXCEPT ![j].status = "failed", ![j].error_message = "set"]
    /\ runner_pc' = [runner_pc EXCEPT ![j] = "end_time"]
    /\ UNCHANGED <<pc, broadcast_failures, sync_pc, sync_seen, sync_job, sync_returned, sync_calls, current_job,
                   completed_jobs,
                   chatData, chunkVars, buildVars, managerVars, liveVars, searchVars, adapterVars, trackerVars, readerVars, cancelVars>>

\* self.job.end_time = now, on either path (media_sync.py:67, 76)
RunnerSetEndTime(j) ==
    /\ runner_pc[j] = "end_time"
    /\ jobs' = [jobs EXCEPT ![j].end_time = "set"]
    /\ runner_pc' = [runner_pc EXCEPT ![j] = "broadcast_final"]
    /\ UNCHANGED <<pc, broadcast_failures, sync_pc, sync_seen, sync_job, sync_returned, sync_calls, current_job,
                   completed_jobs,
                   chatData, chunkVars, buildVars, managerVars, liveVars, searchVars, adapterVars, trackerVars, readerVars, cancelVars>>

\* _broadcast_status without its try: a send that raises leaves it, into the handler of
\* run when the call is in the try body, out of the thread when it is in the handler
BroadcastOutcome_raises(at, status, sent) ==
    IF sent THEN (IF at = "broadcast_running" THEN "sync" ELSE "ended")
    ELSE IF at = "broadcast_running" \/ status = "success" THEN "failed" ELSE "ended"

\* where run goes on after self._broadcast_status(): send_data raising is caught and logged
\* inside _broadcast_status (media_sync.py:83-91), so run continues as after a send; after
\* the last broadcast the finally block stops the requestor and the thread ends
\* (media_sync.py:79-81)
BroadcastOutcome(at, status, sent) ==
    IF at = "broadcast_running" THEN "sync" ELSE "ended"

\* self._broadcast_status() (media_sync.py:48, 70, 77): the send succeeds or raises
RunnerBroadcast(j) ==
    /\ runner_pc[j] \in {"broadcast_running", "broadcast_final"}
    /\ \E sent \in BOOLEAN :
          /\ broadcast_failures' = IF sent THEN broadcast_failures ELSE broadcast_failures \cup {j}
          /\ runner_pc' = [runner_pc EXCEPT ![j] = BroadcastOutcome(runner_pc[j], jobs[j].status, sent)]
    /\ UNCHANGED <<pc, sync_pc, sync_seen, sync_job, sync_returned, sync_calls, jobs, current_job,
                   completed_jobs,
                   chatData, chunkVars, buildVars, managerVars, liveVars, searchVars, adapterVars, trackerVars, readerVars, cancelVars>>

NextSync ==
    \/ \E c \in SyncCallers : SyncCall(c)
    \/ \E c \in SyncCallers : SyncGetCurrent(c)
    \/ \E c \in SyncCallers : SyncTestStatus(c)
    \/ \E c \in SyncCallers : SyncReject(c)
    \/ \E c \in SyncCallers : SyncCreate(c)
    \/ \E c \in SyncCallers : set_current_job(c)
    \/ \E c \in SyncCallers : SyncStartRunner(c)
    \/ \E j \in 1..Len(jobs) : RunnerSetRunning(j)
    \/ \E j \in 1..Len(jobs) : RunnerSetStartTime(j)
    \/ \E j \in 1..Len(jobs) : RunnerSync(j)
    \/ \E j \in 1..Len(jobs) : RunnerSetSuccess(j)
    \/ \E j \in 1..Len(jobs) : RunnerSetFailed(j)
    \/ \E j \in 1..Len(jobs) : RunnerSetEndTime(j)
    \/ \E j \in 1..Len(jobs) : RunnerBroadcast(j)

SpecSync == InitSync /\ [][NextSync]_vars

----------------------------------------------------------------------------
(* Properties of the agent loop *)

Last(q) == q[Len(q)]

\* number of messages of the conversation that satisfy Test
CountMessages(Test(_)) == Len(SelectSeq(conversation, Test))

IsToolMessage(m) == m.role = "tool"
IsToolRequest(m) == m.role = "assistant" /\ m.tool_calls # <<>>

\* the tool-role messages of the conversation, in order
ToolMessages == SelectSeq(conversation, IsToolMessage)

TerminalFrame(f) == f.type \in {"done", "error"}

\* C1: in the blocking loop at most max_tool_iterations provider calls are made and at most
\* that many turns have their tools executed, no exception leaves chat_completion, and
\* once the max_tool_iterations-th tool turn has been processed (the loop is back at its
\* head) the request ends with finish_reason "length" without another provider call.
C1_Counts ==
    ~Native =>
        /\ provider_calls <= max_iterations
        /\ tool_iterations <= max_iterations
        /\ pc # "raised"
C1_AtCap ==
    (~Native /\ pc = "while" /\ tool_iterations = max_iterations) =>
        /\ pc' = "done"
        /\ response'.status = 200
        /\ response'.finish_reason = "length"
        /\ provider_calls' = provider_calls
C1_IterationCap == []C1_Counts /\ [][C1_AtCap]_vars

C1_Witness ==
    /\ ~Native
    /\ pc = "done"
    /\ max_iterations >= 2
    /\ tool_iterations = max_iterations
    /\ provider_calls = max_iterations
    /\ response.finish_reason = "length"

\* C2 (as claimed): when every provider call of a non-streaming request
\* requested tools, the response is the maximum-iterations response: tool_iterations =
\* max_tool_iterations, finish_reason "length", the fixed message, and every executed tool
\* in execution order.
C2_AlwaysToolsEndsAtCap ==
    (~stream /\ pc = "done" /\ provider_calls >= 1 /\ provider_calls = tool_iterations) =>
        /\ response = CompletionJSONResponse(MaxIterationsMessage, "length",
                                             max_iterations, tool_calls)
        /\ Len(tool_calls) = Len(ToolMessages)
        /\ \A i \in 1..Len(tool_calls) : tool_calls[i].response = ToolMessages[i].content

\* C3: when the provider call number k+1 returns no tool calls and no error, the blocking
\* response carries that call's content, tool_iterations = k, one tool_calls entry per tool
\* executed in the k tool turns (none when k = 0), and finish_reason "stop" when the native
\* status was a natural stop.
C3_FinalAnswer ==
    (~stream /\ pc = "done" /\ response.status = 200 /\ provider_calls = tool_iterations + 1) =>
        /\ Last(conversation).role = "assistant"
        /\ Last(conversation).tool_calls = <<>>
        /\ response.content = IF Truthy(Last(conversation).content)
                              THEN Last(conversation).content ELSE <<>>
        /\ response.tool_iterations = provider_calls - 1
        /\ response.tool_iterations = CountMessages(IsToolRequest)
        /\ Len(response.tool_calls) = Len(ToolMessages)
        /\ \A i \in 1..Len(ToolMessages) : response.tool_calls[i].response = ToolMessages[i].content
        /\ (provider_calls = 1 => response.tool_calls = <<>>)
        /\ (final_native \in {"stop", "STOP"} => response.finish_reason = "stop")

C3_Witness ==
    /\ ~stream
    /\ pc = "done"
    /\ provider_calls = 2
    /\ response.tool_iterations = 1
    /\ Len(response.tool_calls) = 1
    /\ response.finish_reason = "stop"
    /\ response.content = <<"o", "k">>

\* C4: when a tool turn has been processed (blocking or streaming loop back at its head),
\* the conversation has gained one assistant message carrying the requested tool calls,
\* followed by one tool message per requested call, in order, with the call's id, whatever
\* each tool did.
C4_ToolResultsFollowRequest ==
    (pc \in {"while", "llm_while"} /\ requested # <<>>) =>
        /\ Len(conversation) = turn_start + 1 + Len(requested)
        /\ conversation[turn_start + 1].role = "assistant"
        /\ Len(conversation[turn_start + 1].tool_calls) = Len(requested)
        /\ \A i \in 1..Len(requested) :
              /\ conversation[turn_start + 1].tool_calls[i].id = requested[i].id
              /\ conversation[turn_start + 1].tool_calls[i].name = requested[i].name
              /\ conversation[turn_start + 1 + i].role = "tool"
              /\ conversation[turn_start + 1 + i].tool_call_id = requested[i].id

C4_Witness ==
    /\ pc \in {"while", "llm_while"}
    /\ Len(requested) = 2
    /\ Len(conversation) = turn_start + 3
    /\ conversation[turn_start + 2].content = ResultContent("raise")
    /\ conversation[turn_start + 3].content = ResultContent("error")

\* C5: after a provider turn that ended with finish_reason "error" the request is over with
\* the generic error (error body from the blocking loop, which also serves simulated
\* streaming; error frame from the streaming loop), nothing was appended to the
\* conversation, no tool of the turn ran, and no step (so no provider call) follows.
C5_Terminated ==
    last_finish = "error" =>
        /\ pc = "done"
        /\ Len(conversation) = turn_start
        /\ pending = <<>>
        /\ Len(IF Native THEN stream_tool_calls ELSE tool_calls) = Len(ToolMessages)
        /\ IF Native
           THEN frames # <<>> /\ Last(frames) = ErrorFrame
           ELSE response = ErrorJSONResponse
C5_ProviderErrorEndsRequest == []C5_Terminated /\ [][last_finish # "error"]_vars

C5_Witness ==
    /\ last_finish = "error"
    /\ Native
    /\ provider_calls = 2
    /\ Len(frames) >= 2
    /\ frames[Len(frames) - 1].type = "content"

\* ChatCompletionResponse / the error body, as returned
WellFormedResponse(r) ==
    /\ r.kind = "json"
    /\ \/ /\ r.keys = {"error"}
          /\ r.status = 500
          /\ r.error = GenericError
       \/ /\ r.keys = {"message", "finish_reason", "tool_iterations", "tool_calls"}
          /\ r.status = 200
          /\ r.content # None
          /\ r.finish_reason # ""
          /\ r.tool_iterations \in 0..max_iterations
          /\ \A i \in 1..Len(r.tool_calls) :
                /\ r.tool_calls[i].arguments.t = "dict"
                /\ r.tool_calls[i].response # None

\* C6: a non-streaming request never lets an exception out, returns nothing before it
\* ends, can always take a step until it ends, ends with a well-formed response (final answer, maximum-iterations response or
\* generic error body), and returns once.
C6_Returned ==
    ~stream =>
        /\ pc # "raised"
        /\ pc = "done" => WellFormedResponse(response)
        /\ pc # "done" => (response = NoResponse /\ ENABLED Next)
C6_Once == (~stream /\ response # NoResponse) => response' = response
C6_OneWellFormedResponse == []C6_Returned /\ [][C6_Once]_vars

C6_Witness ==
    /\ ~stream
    /\ pc = "done"
    /\ pending # <<>>
    /\ tool_iterations = 2
    /\ response = ErrorJSONResponse

\* C7 (as claimed): every request with stream = true ends as a stream of frames with
\* exactly one terminal frame (done or error), which is the last frame.
C7_OneTerminalFrameLast ==
    (stream /\ pc \in {"done", "raised"}) =>
        /\ response.kind = "stream"
        /\ frames # <<>>
        /\ TerminalFrame(Last(frames))
        /\ \A i \in 1..(Len(frames) - 1) : ~TerminalFrame(frames[i])

\* C8: in the native streaming loop no frame follows a done or error frame, within one
\* provider turn no content frame and no second tool_calls frame follows the tool_calls
\* frame, and a tool_calls frame is written only when every tool call of the turn has been
\* executed.
C8_Order ==
    Native =>
        \A i, j \in 1..Len(frames) :
            i < j =>
                /\ ~TerminalFrame(frames[i])
                /\ (frame_turn[i] = frame_turn[j] /\ frames[i].type = "tool_calls")
                      => frames[j].type \notin {"content", "tool_calls"}
C8_AfterExecution ==
    (Native /\ Len(frames') > Len(frames) /\ Last(frames').type = "tool_calls") =>
        /\ pending = <<>>
        /\ Len(tool_calls_out) = Len(requested)
        /\ Last(frames').tool_calls = stream_tool_calls \o tool_calls_out
C8_FrameOrder == []C8_Order /\ [][C8_AfterExecution]_vars

C8_Witness ==
    /\ Native
    /\ pc = "done"
    /\ \E i, j \in 1..Len(frames) :
          /\ i < j
          /\ frames[i].type = "content"
          /\ frames[j].type = "tool_calls"
          /\ frame_turn[i] = frame_turn[j]
    /\ Last(frames).type = "done"

\* C22: a natively streamed request whose iteration counter has reached max_tool_iterations
\* after a tool-requesting turn gives its caller what the blocking loop returns at the cap:
\* the stream carries the fixed reached-maximum-iterations message, and no provider call
\* is made beyond the cap.
C22_StreamCapLikeBlocking ==
    (Native /\ pc = "done" /\ stream_iterations = max_iterations /\ frames # <<>>
        /\ Last(frames).type = "done") =>
        /\ provider_calls <= max_iterations
        /\ \E i \in 1..Len(frames) :
              frames[i].type = "content" /\ frames[i].delta = MaxIterationsMessage

\* C23: in native streaming mode, whatever events the adapter streams deliver, at most
\* max_tool_iterations provider stream calls are started for one request, and the
\* response generator comes to its end.
C23_Calls == Native => provider_calls <= max_iterations /\ stream_iterations <= max_iterations
C25_UnparsableArgumentsContinue ==
    (Native /\ \E i \in 1..Len(requested) : requested[i].arguments.t = "str") =>
        /\ pc # "raised"
        /\ pc \in {"llm_while", "done"} =>
              /\ Len(ToolMessages) >= Len(requested)
              /\ \E k \in 1..Len(frames) : frames[k].type = "tool_calls"

----------------------------------------------------------------------------
(* Properties of the adapters *)

\* the call failed or delivered no choice (OpenAI, Azure, llama.cpp), no candidate (Gemini),
\* no message (Ollama)
NoPayload(a, r) ==
    \/ r.transport \in {"raise", "timeout"}
    \/ IF a = "ollama" THEN ~r.has_message ELSE ~r.has_choice

\* C9: chat_with_tools of every adapter returns, without raising, a record with exactly the
\* fields content, tool_calls and finish_reason; it is {None, None, "error"} when the
\* transport raised or timed out or delivered no choice / candidate / message.
C9_WellFormedOnFailure ==
    pc = "adapter_returned" =>
        /\ result # Raised
        /\ DOMAIN result = {"content", "tool_calls", "finish_reason"}
        /\ result.finish_reason # ""
        /\ NoPayload(adapter, raw) => result = ErrorResponse

C9_Witness ==
    /\ pc = "adapter_returned"
    /\ adapter = "llama_cpp"
    /\ raw.transport = "raise"
    /\ raw.provider_ok
    /\ result = ErrorResponse

\* C10 (as claimed): every NormalizedResponse an adapter returns, and every one carried by
\* the message event that ends a stream, has finish_reason "tool_calls" when its tool_calls
\* are non-empty.
C10_ToolCallsImplyFinishReason ==
    /\ pc = "adapter_returned" =>
          (result.tool_calls # <<>> => result.finish_reason = "tool_calls")
    /\ pc = "adapter_streamed" =>
          (Last(events).message.tool_calls # <<>> => Last(events).message.finish_reason = "tool_calls")

FinishReasons == {"stop", "length", "tool_calls", "error"}

\* C11 (as claimed): the finish_reason of every NormalizedResponse an adapter returns, or
\* carries in the message event that ends a stream, is one of stop, length, tool_calls,
\* error, whatever native status the provider reported.
C11_FinishReasonInBuckets ==
    /\ pc = "adapter_returned" => result.finish_reason \in FinishReasons
    /\ pc = "adapter_streamed" => Last(events).message.finish_reason \in FinishReasons

\* the ids the provider supplied are pairwise distinct (an absent id is "")
ProviderIdsDistinct(calls) ==
    \A i, j \in 1..Len(calls) : (i # j /\ calls[i].id # "") => calls[i].id # calls[j].id

IdsUsable(calls) ==
    /\ \A i \in 1..Len(calls) : calls[i].id # ""
    /\ \A i, j \in 1..Len(calls) : i # j => calls[i].id # calls[j].id

\* C12 (as claimed): in every NormalizedResponse with tool calls (returned, or carried by
\* the message event that ends a stream) each tool call has a non-empty id and the ids of
\* the turn are pairwise distinct, also when the provider supplies no id and when the same
\* tool is requested twice.
C12_ToolCallIdsDistinct ==
    /\ (pc = "adapter_returned" /\ ProviderIdsDistinct(raw.tool_calls)) => IdsUsable(result.tool_calls)
    /\ pc = "adapter_streamed" => IdsUsable(Last(events).message.tool_calls)

----------------------------------------------------------------------------
(* Properties of the units *)

\* C13 (as claimed): the fragments _chunk_content yields for a final answer, concatenated
\* in order, are the final answer.
C13_ChunksRoundTrip ==
    pc = "chunk_done" => delivered = answer

\* positions of the conversation whose content is the two-block list (text + image)
Multimodal == {i \in 1..Len(init_conversation) : init_conversation[i].image_url # ""}

\* C14: while and after the conversation is initialized, at most one message is multimodal,
\* it is the first user message of the input, no image is attached when the frame could
\* not be fetched, and every message keeps the caller's role and text in input order.
C14_ImageOnFirstUserMessageOnly ==
    /\ Cardinality(Multimodal) <= 1
    /\ \A i \in Multimodal :
          /\ init_conversation[i].role = "user"
          /\ \A j \in 1..(i - 1) : init_conversation[j].role # "user"
    /\ live_camera # "ok" => Multimodal = {}
    /\ \A i \in 2..Len(init_conversation) :
          /\ init_conversation[i].role = body_messages[i - 1].role
          /\ init_conversation[i].content = body_messages[i - 1].content
    /\ pc = "build_done" => Len(init_conversation) = Len(body_messages) + 1

C14_Witness ==
    /\ pc = "build_done"
    /\ Len(body_messages) = 3
    /\ body_messages[1].role = "assistant"
    /\ body_messages[2].role = "user"
    /\ body_messages[3].role = "user"
    /\ Multimodal = {3}
    /\ init_conversation[4].image_url = ""

ManagerRoles == {"tools", "vision", "embeddings"}

\* the i-th entry declares role r and its adapter was constructed
Provides(cfg, i, r) ==
    /\ cfg[i].provider = "constructs"
    /\ \E k \in 1..Len(cfg[i].roles) : cfg[i].roles[k] = r

\* C15: when _update_config has returned, the handle of each role is the client of the last
\* entry in configuration order that declares the role and was constructed, and it is None
\* exactly when there is no such entry, whatever the handles were before.
C15_LastConstructedWins ==
    pc = "update_config_done" =>
        \A r \in ManagerRoles :
            /\ role_clients[r] \in 0..Len(genai_config)
            /\ role_clients[r] = 0 <=> ~\E i \in 1..Len(genai_config) : Provides(genai_config, i, r)
            /\ role_clients[r] # 0 =>
                  /\ Provides(genai_config, role_clients[r], r)
                  /\ \A j \in (role_clients[r] + 1)..Len(genai_config) : ~Provides(genai_config, j, r)

C15_Witness ==
    /\ pc = "update_config_done"
    /\ Len(genai_config) = 2
    /\ Provides(genai_config, 1, "tools")
    /\ Provides(genai_config, 2, "tools")
    /\ Provides(genai_config, 1, "vision")
    /\ role_clients = [tools |-> 2, vision |-> 1, embeddings |-> 0]
    /\ entries_done = 2

Broken(entry) == entry.provider \in {"unknown", "raises"}

\* positions of the entries that are not broken, in order
RECURSIVE KeptPositions(_, _)
KeptPositions(cfg, i) ==
    IF i > Len(cfg) THEN <<>>
    ELSE (IF Broken(cfg[i]) THEN <<>> ELSE <<i>>) \o KeptPositions(cfg, i + 1)

\* the handles _update_config leaves for a configuration
RECURSIVE Rebuilt(_, _, _)
Rebuilt(cfg, i, clients) ==
    IF i > Len(cfg) THEN clients
    ELSE Rebuilt(cfg, i + 1, UpdateEntry(clients, cfg[i], i))

\* C16: _update_config returns for every configuration (it can always go on until it has
\* returned), a broken entry (unknown provider, constructor raising) changes no handle when
\* the loop passes it, and the handles at the end are those of the same configuration
\* without its broken entries.
C16_Returned ==
    /\ pc \in {"update_config", "update_config_loop"} => ENABLED NextManager
    /\ pc = "update_config_done" =>
          LET kept == KeptPositions(genai_config, 1)
              reduced == [k \in 1..Len(kept) |-> genai_config[kept[k]]]
              expected == Rebuilt(reduced, 1, NoClients)
          IN  \A r \in ManagerRoles :
                 role_clients[r] = IF expected[r] = 0 THEN 0 ELSE kept[expected[r]]
C16_BrokenEntryStep ==
    (pc = "update_config_loop" /\ entries_done < Len(genai_config)
        /\ Broken(genai_config[entries_done + 1])) => role_clients' = role_clients
C16_BrokenEntrySkipped == []C16_Returned /\ [][C16_BrokenEntryStep]_vars

C16_Witness ==
    /\ pc = "update_config_done"
    /\ Len(genai_config) = 2
    /\ Provides(genai_config, 1, "tools")
    /\ genai_config[2] = [provider |-> "raises", roles |-> <<"tools", "vision">>]
    /\ role_clients = [tools |-> 1, vision |-> 0, embeddings |-> 0]

RECURSIVE CurrentOf(_, _)
CurrentOf(s, t) ==
    IF s = <<>> THEN <<>>
    ELSE IF obj_frame_time[Head(s)] = t
         THEN <<Head(s)>> \o CurrentOf(Tail(s), t)
         ELSE CurrentOf(Tail(s), t)

\* C18: when get_live_context returns its result, the detections are exactly the objects
\* of the copied map whose frame_time equals the snapshotted current_frame_time, every
\* object with another frame_time is left out, and the timestamp is the snapshotted time.
C18_DetectionsOfSnapshot ==
    (pc = "glc_done" /\ glc_result.error = "") =>
        /\ tracked_objects = state_tracked_objects
        /\ frame_time = state_current_frame_time
        /\ glc_result.timestamp = frame_time
        /\ glc_result.detections = CurrentOf(tracked_objects, frame_time)
        /\ \A i \in 1..Len(tracked_objects) :
              obj_frame_time[tracked_objects[i]] # frame_time =>
                  \A j \in 1..Len(glc_result.detections) :
                      glc_result.detections[j] # tracked_objects[i]

C18_Witness ==
    /\ pc = "glc_done"
    /\ glc_result.error = ""
    /\ Len(tracked_objects) = 2
    /\ Len(glc_result.detections) = 1

\* C19: a failure local to one tool call (unknown tool name, missing camera argument,
\* access denied, an exception raised inside the tool) leaves a textual error result for
\* that call and does not stop the turn: while the tools of a turn are executed every call
\* already passed has its tool result, and the request never ends while calls of the turn
\* are still waiting to be executed.
C19_LocalFailureContinues ==
    /\ pc = "tools" => Len(tool_results) + Len(pending) = Len(requested)
    /\ pc \in {"done", "raised"} => pending = <<>>

\* a value that is a text in the ISO 8601 form of the tool definition
ParsableBound(val) ==
    val \in {PyStr("2024-01-01T00:00:00Z"), PyStr("2024-01-02T23:59:59")}

\* C20: in the query search_objects builds, each of after and before is a numeric bound when
\* its own argument is a parsable ISO-8601 value and is the open bound (None) when the
\* argument is absent or is an unparsable value of any type, whatever the other argument is.
C20_BoundsIndependent ==
    pc = "search_done" =>
        /\ query_params.after.t =
              (IF ParsableBound(search_arguments.after) THEN "float" ELSE "NoneType")
        /\ query_params.before.t =
              (IF ParsableBound(search_arguments.before) THEN "float" ELSE "NoneType")

----------------------------------------------------------------------------
(* Properties of the media sync jobs *)

\* the jobs that were made the current job or given a runner thread and are queued or running
ActiveJobs ==
    {j \in 1..Len(jobs) : /\ jobs[j].status \in {"queued", "running"}
                          /\ (runner_pc[j] # "none" \/ current_job = j \/ j \in completed_jobs)}

\* C21: under every interleaving of start_media_sync_job calls and job completions at most
\* one media_sync job is queued or running, and a call that returned None created no job,
\* replaced no current job and started no runner thread.
C21_OneActiveJob ==
    /\ Cardinality(ActiveJobs) <= 1
    /\ \A c \in SyncCallers : sync_returned[c] = 0 => sync_job[c] = 0

\* C24: every run of an adapter's chat_with_tools_stream read to its end, on success and on
\* a transport failure at any point or an uninitialized provider, yields exactly one
\* message event, as its last event, after content_delta events only.
C24_OneMessageLast ==
    pc = "adapter_streamed" =>
        /\ events # <<>>
        /\ Last(events).kind = "message"
        /\ \A i \in 1..(Len(events) - 1) : events[i].kind = "content_delta"

C24_Witness ==
    /\ pc = "adapter_streamed"
    /\ Len(events) >= 2
    /\ events[1].kind = "content_delta"
    /\ Last(events).message.finish_reason = "error"

\* the provider calls of a stream read to its end: one per function_call part for Gemini,
\* whose parts are whole calls, one per distinct index for the adapters that receive
\* fragments keyed by index
ProviderCallSlots(a, sr) ==
    LET chunks == IF a = "llama_cpp" THEN BeforeDone(Delivered(sr)) ELSE Delivered(sr)
        deltas == AllDeltas(chunks)
    IN  IF a = "gemini" THEN Len(deltas)
        ELSE Cardinality({deltas[i].index : i \in 1..Len(deltas)})

\* C26: the terminal message of a streaming adapter that read its stream to the end holds
\* exactly one tool call per provider call slot; calls in different slots are never
\* merged, also when they name the same tool.
C26_OneCallPerSlot ==
    (pc = "adapter_streamed" /\ adapter \in {"openai", "llama_cpp", "gemini"}
        /\ stream_input.provider_ok /\ ~Fails(stream_input)) =>
        Len(Last(events).message.tool_calls) = ProviderCallSlots(adapter, stream_input)

\* C27: when an adapter's provider initialization returns null, the roles its entry claims
\* are left unconfigured: no handle is bound to that adapter when _update_config has
\* returned.
C27_NullProviderUnconfigured ==
    pc = "update_config_done" =>
        \A r \in ManagerRoles :
            role_clients[r] > 0 => init_provider[role_clients[r]] # "None"

\* C28: when include_live_image names a camera outside the caller's allowed cameras or a
\* camera that is not configured, no frame is read and no message of the conversation gets
\* an image block, and the initialization still ends with every message of the request in
\* the conversation as its role and text.
C28_DeniedCameraTextOnly ==
    live_camera \in {"not_allowed", "not_configured"} =>
        /\ frame_reads = 0
        /\ Multimodal = {}
        /\ pc = "build_loop" /\ Len(init_conversation) <= Len(body_messages) => ENABLED BuildMessage
        /\ pc = "build_done" =>
              /\ Len(init_conversation) = Len(body_messages) + 1
              /\ \A i \in 1..Len(body_messages) :
                    /\ init_conversation[i + 1].role = body_messages[i].role
                    /\ init_conversation[i + 1].content = body_messages[i].content
                    /\ init_conversation[i + 1].image_url = ""

C28_Witness ==
    /\ pc = "build_done"
    /\ live_camera = "not_allowed"
    /\ first_user_message_seen
    /\ \E i \in 1..Len(body_messages) : body_messages[i].role = "user"
    /\ frame_reads = 0
    /\ Multimodal = {}

\* the tool results of the turn being executed: result i belongs to requested call i
C29_InOrder ==
    pc = "tools" =>
        LET k == Len(tool_results)
        IN  /\ Len(tool_calls_out) = k
            /\ k <= Len(requested)
            /\ pending = SubSeq(requested, k + 1, Len(requested))
            /\ \A i \in 1..k :
                  /\ tool_results[i].role = "tool"
                  /\ tool_results[i].tool_call_id = requested[i].id
                  /\ tool_calls_out[i].name = requested[i].name
                  /\ tool_calls_out[i].response = tool_results[i].content
            /\ Len(conversation) = turn_start + 1

\* one step executes at most one call, and it is the first call still pending
C29_OneAtATime ==
    (pc = "tools" /\ tool_results' # tool_results) =>
        /\ pending # <<>>
        /\ pending' = Tail(pending)
        /\ Len(tool_results') = Len(tool_results) + 1
        /\ tool_results'[Len(tool_results')].tool_call_id = Head(pending).id
        /\ SubSeq(tool_results', 1, Len(tool_results)) = tool_results

\* a provider call starts only outside the execution of a turn, when the conversation
\* holds the result of every call of the previous turn, in the requested order
C29_CallAfterResults ==
    provider_calls' # provider_calls =>
        /\ pc # "tools"
        /\ pending = <<>>
        /\ requested # <<>> =>
              /\ Len(conversation) = turn_start + 1 + Len(requested)
              /\ \A i \in 1..Len(requested) :
                    conversation[turn_start + 1 + i].tool_call_id = requested[i].id

\* C29: the tool calls of a turn are executed one at a time in the order the provider
\* requested them, call i+1 only after call i has produced its result, and the next provider
\* call starts only after every result of the turn has been appended to the conversation.
C29_SequentialInOrder ==
    []C29_InOrder /\ [][C29_OneAtATime]_vars /\ [][C29_CallAfterResults]_vars

C29_Witness ==
    /\ provider_calls = 2
    /\ pc = "tools"
    /\ Len(requested) = 2
    /\ requested[1].id # requested[2].id
    /\ Len(tool_results) = 1
    /\ tool_results[1].tool_call_id = requested[1].id
    /\ Len(pending) = 1
    /\ conversation[turn_start].role = "tool"

\* the lock is held by get_live_context only between its acquisition and the read of
\* current_frame_time, never while objects are formatted and never at the return
C30_HeldInCriticalSectionOnly ==
    /\ current_frame_lock \in {"free", "get_live_context"}
    /\ current_frame_lock # "free" => pc \in {"glc_copy", "glc_time"}
    /\ pc \in {"glc_copy", "glc_time"} => current_frame_lock = "get_live_context"
    /\ pc \in {"glc_loop", "glc_done"} => current_frame_lock = "free"
    /\ glc_history.lock_acquisitions <= 1

\* a step that formats an object or sets the result is taken with the lock free, except
\* the step that leaves the critical section by an exception, which frees it
C30_FormatUnlocked ==
    (tracked_objects_dict' # tracked_objects_dict \/ glc_remaining' # glc_remaining
        \/ glc_result' # glc_result) =>
        /\ current_frame_lock' = "free"
        /\ current_frame_lock # "free" => (pc = "glc_copy" /\ glc_fault = "copy") \/ pc = "glc_time"

\* C30: get_live_context holds current_frame_lock only while it copies the tracked-object
\* map and reads current_frame_time; the lock is free before any object is formatted, it is
\* released when an exception leaves the critical section, and it is free at every return.
C30_LockScope == []C30_HeldInCriticalSectionOnly /\ [][C30_FormatUnlocked]_vars

C30_Witness ==
    /\ pc = "glc_done"
    /\ glc_fault = "copy"
    /\ glc_history.lock_acquisitions = 1
    /\ current_frame_lock = "free"
    /\ glc_result = LiveError("Error getting live context")

\* the ids of a dict order s whose object carried the frame time t at the snapshot
RECURSIVE SnapshotCurrent(_, _)
SnapshotCurrent(s, t) ==
    IF s = <<>> THEN <<>>
    ELSE IF snapshot_frame_times[Head(s)] = t
         THEN <<Head(s)>> \o SnapshotCurrent(Tail(s), t)
         ELSE SnapshotCurrent(Tail(s), t)

\* C31: with the tracker processing frames beside get_live_context, the detections of a
\* returned result are exactly the objects of the copied map that were current (frame_time
\* = current_frame_time) at the moment of the snapshot.
C31_DetectionsOfSnapshotUnderTracker ==
    (pc = "glc_done" /\ glc_result.error = "") =>
        /\ glc_result.timestamp = frame_time
        /\ glc_result.detections = SnapshotCurrent(tracked_objects, frame_time)

\* the entry whose client the tools handle is bound to when the rebuild has returned (0: none)
FinalToolClient ==
    LET providing == {i \in 1..Len(genai_config) : Provides(genai_config, i, "tools")}
    IN  IF providing = {} THEN 0 ELSE CHOOSE i \in providing : \A j \in providing : j <= i

\* C32: while _update_config rebuilds handles for a configuration that binds the tools role
\* before and after the rebuild, no request reads the tools handle as None, and every
\* handle read is the client bound before the rebuild or the one bound after it.
C32_RebuildNeverUnbound ==
    FinalToolClient # 0 =>
        \A c \in tool_client_reads : c # 0 /\ c \in {-1, FinalToolClient}

\* C33: once the consumer of a native stream has disconnected, no provider call and no tool
\* execution can start any more, and the provider connection that was open at that moment
\* is closed once the adapter's generator has been closed, which is always still to come
\* while that generator is suspended.
C33_DisconnectStopsWorkAndCloses ==
    consumer = "disconnected" =>
        /\ pc = "closed"
        /\ ~ENABLED Next
        /\ adapter_generator = "suspended" => ENABLED AdapterGeneratorClose
        /\ adapter_generator = "closed" => open_connection # "open"

\* a step taken while the next adapter event is a content_delta appends one content frame
\* with the event's text and consumes that event alone
C34_DeltaForwarded ==
    (pc = "llm_stream" /\ events # <<>> /\ Head(events).kind = "content_delta") =>
        /\ frames' = Append(frames, ContentFrame(Head(events).value))
        /\ frames'[Len(frames')].delta = Head(events).value
        /\ events' = Tail(events)
        /\ pc' = "llm_stream"

\* a content frame is written by no other step of a native stream, and no frame already
\* written is changed
C34_OnlyDeltas ==
    (Native /\ frames' # frames) =>
        /\ Len(frames') = Len(frames) + 1
        /\ SubSeq(frames', 1, Len(frames)) = frames
        /\ frames'[Len(frames')].type = "content" =>
              /\ pc = "llm_stream"
              /\ events # <<>>
              /\ Head(events).kind = "content_delta"

\* C34: in a native stream each content_delta event of the adapter produces exactly one
\* content frame with the same text before the next event is consumed, so the content
\* frames of a turn are the adapter's content_delta events in order, without merging,
\* dropping or buffering.
C34_DeltasForwardedOneByOne == [][C34_DeltaForwarded]_vars /\ [][C34_OnlyDeltas]_vars

C34_Witness ==
    /\ Native
    /\ pc = "llm_stream"
    /\ Len(frames) = 2
    /\ frames[1].type = "content"
    /\ frames[2].type = "content"
    /\ frame_turn[1] = frame_turn[2]
    /\ events # <<>>

\* the system message is first and the caller's message follows it
C35_Head ==
    /\ Len(conversation) >= 2
    /\ conversation[1] = SystemMessage
    /\ conversation[2] = UserMessage

\* the conversation before a step is a prefix of the conversation after it
C35_Prefix ==
    /\ Len(conversation') >= Len(conversation)
    /\ SubSeq(conversation', 1, Len(conversation)) = conversation

\* C35: during a request the conversation only grows by appending: the system message
\* stays first, the caller's messages follow it, every step leaves the messages it found
\* in place and unchanged, and so does every provider adapter call.
C35_AppendOnly == []C35_Head /\ [][C35_Prefix]_vars

C35_Witness ==
    /\ provider_calls = 2
    /\ Len(conversation) >= 5
    /\ conversation[3].role = "assistant"
    /\ conversation[4].role = "tool"
    /\ conversation[Len(conversation)].role = "assistant"
    /\ adapter = "gemini"

\* the native statuses by which a provider reports a safety or content-filter rejection
SafetyFinish == {"SAFETY", "RECITATION", "content_filter"}

\* the stream was read to its end and the last native status it carried is a rejection
StreamRejected(sr) ==
    /\ sr.provider_ok
    /\ ~Fails(sr)
    /\ \E i \in 1..Len(sr.chunks) :
          /\ sr.chunks[i].has_choice
          /\ sr.chunks[i].finish_reason \in SafetyFinish
          /\ \A j \in (i + 1)..Len(sr.chunks) : ~NativeTruthy(sr.chunks[j].finish_reason)

\* the finish_reason the rejection is to be normalized to
RejectedAs(calls) == IF calls # <<>> THEN "tool_calls" ELSE "stop"

\* C36: a safety or content-filter rejection reported by the provider is normalized to
\* finish_reason stop when the response has no tool calls and to tool_calls when it has,
\* in the blocking and in the streamed path of every adapter.
C36_RejectionIsStop ==
    /\ (pc = "adapter_returned" /\ raw.provider_ok /\ ~NoPayload(adapter, raw)
            /\ raw.finish_reason \in SafetyFinish) =>
          result.finish_reason = RejectedAs(result.tool_calls)
    /\ (pc = "adapter_streamed" /\ StreamRejected(stream_input)) =>
          Last(events).message.finish_reason = RejectedAs(Last(events).message.tool_calls)

\* the tool_calls frames written so far, in order
ToolCallsFrames == SelectSeq(frames, LAMBDA f : f.type = "tool_calls")

\* the tool calls executed during the request, in execution order
ExecutedCalls == IF Native THEN stream_tool_calls ELSE tool_calls

\* C37: in every stream that has reached its done frame, the last tool_calls frame lists
\* the executed tool calls, each once and in execution order (there is no such frame when
\* none was executed), and in a native stream the list of each tool_calls frame has the
\* list of the frame before it as a prefix.
C37_ToolCallsFramesCumulative ==
    (stream /\ pc = "done" /\ frames # <<>> /\ frames[Len(frames)].type = "done") =>
        /\ ExecutedCalls = <<>> <=> ToolCallsFrames = <<>>
        /\ ToolCallsFrames # <<>> =>
              ToolCallsFrames[Len(ToolCallsFrames)].tool_calls = ExecutedCalls
        /\ Native =>
              \A i \in 1..(Len(ToolCallsFrames) - 1) :
                  LET earlier == ToolCallsFrames[i].tool_calls
                      later == ToolCallsFrames[i + 1].tool_calls
                  IN  /\ Len(earlier) < Len(later)
                      /\ SubSeq(later, 1, Len(earlier)) = earlier

C37_Witness ==
    /\ Native
    /\ pc = "done"
    /\ frames[Len(frames)].type = "done"
    /\ Len(ToolCallsFrames) = 2
    /\ Len(ToolCallsFrames[1].tool_calls) >= 1
    /\ Len(ToolCallsFrames[2].tool_calls) > Len(ToolCallsFrames[1].tool_calls)

\* the provider output of a blocking call delivered as a stream: one chunk with the same
\* content, the same tool calls (one slot each, the argument text whole) and the same
\* native finish status; for Ollama it is the chunk that has done set
StreamOfRaw(a, r) ==
    LET deltas == [i \in 1..Len(r.tool_calls) |->
                      Delta(i - 1, r.tool_calls[i].id, r.tool_calls[i].name,
                            r.tool_calls[i].arguments)]
    IN  StreamRaw(TRUE, -1,
                  <<Chunk(TRUE, r.content, deltas, r.finish_reason, a = "ollama")>>)

\* the NormalizedResponse of the message event that ends the stream of the same output
StreamedResult(a, r) ==
    LET evs == chat_with_tools_stream(a, StreamOfRaw(a, r))
    IN  evs[Len(evs)].message

\* C38: for the same provider output of one turn, what chat_with_tools returns and the
\* terminal message of chat_with_tools_stream are the same NormalizedResponse (OpenAI,
\* llama.cpp and Ollama adapters).
C38_BlockingEqualsStreamed ==
    (pc = "adapter_returned" /\ adapter \in {"openai", "llama_cpp", "ollama"}
        /\ raw.provider_ok /\ raw.transport = "ok" /\ raw.has_choice /\ raw.has_message) =>
        StreamedResult(adapter, raw) = result

\* the fragments still to be written, as the generator yielded them
FragmentNonEmpty(f) == f # <<>>
FragmentFull(f) == Len(f) >= DefaultChunkSize /\ f[Len(f)] = " "
FragmentWholeWords(f) ==
    \A i \in 1..Len(Split(f)) : Split(f)[i] # <<>> =>
        \E j \in 1..Len(Split(answer)) : Split(answer)[j] = Split(f)[i]

C39_NonEmpty == (pc = "chunk_loop" /\ answer # <<>>) =>
    \A i \in 1..Len(parts) : FragmentNonEmpty(parts[i])
C39_WholeWords == (pc = "chunk_loop" /\ answer # <<>>) =>
    \A i \in 1..Len(parts) : FragmentWholeWords(parts[i])
C39_AllButLastFull == (pc = "chunk_loop" /\ answer # <<>>) =>
    \A i \in 1..(Len(parts) - 1) : FragmentFull(parts[i])

\* C39 (as claimed): for a non-empty final answer every fragment _chunk_content yields is
\* non-empty, is made of whole words of the answer, every fragment except the last ends
\* with a space and has at least chunk_size characters, and the fragments are finitely
\* many (the generator's list is a finite sequence).
C39_FragmentsWellFormed ==
    /\ C39_NonEmpty
    /\ C39_WholeWords
    /\ C39_AllButLastFull
    /\ pc = "chunk_loop" => Len(parts) <= Len(answer) + 1

TerminalStatus == {"success", "failed"}

\* the status of every job moves along queued -> running -> success | failed only
C40_Transitions ==
    \A j \in 1..Len(jobs) :
        jobs'[j].status # jobs[j].status =>
            <<jobs[j].status, jobs'[j].status>> \in
                {<<"queued", "running">>, <<"running", "success">>, <<"running", "failed">>}

\* end_time is None up to the statement that makes the status terminal, it is the next
\* statement of the runner after that one, and once set it stays
C40_EndTimeStep ==
    \A j \in 1..Len(jobs) :
        /\ jobs[j].end_time = "set" => jobs'[j] = jobs[j]
        /\ (jobs[j].status \notin TerminalStatus /\ jobs'[j].status \in TerminalStatus) =>
               runner_pc'[j] = "end_time"
        /\ (jobs[j].end_time = "None" /\ jobs'[j].end_time = "set") =>
               (runner_pc[j] = "end_time" /\ jobs[j].status \in TerminalStatus)

\* end_time is set only on a terminal status, and it is set in every job a final broadcast
\* reports and in every job whose runner has ended
C40_EndTimeState ==
    \A j \in 1..Len(jobs) :
        /\ jobs[j].end_time = "set" => jobs[j].status \in TerminalStatus
        /\ jobs[j].status \in TerminalStatus =>
               (jobs[j].end_time = "set" \/ runner_pc[j] = "end_time")
        /\ runner_pc[j] = "ended" =>
               (jobs[j].status \in TerminalStatus /\ jobs[j].end_time = "set")

\* a broadcast that raised leaves the job as the run without it leaves it: the status is
\* success exactly when the results were stored
C40_BroadcastHarmless ==
    \A j \in broadcast_failures :
        /\ jobs[j].status = "success" => jobs[j].results = "set" /\ jobs[j].error_message = "None"
        /\ runner_pc[j] = "ended" => (jobs[j].status = "success" <=> jobs[j].results = "set")

====
